---------------------------- MODULE Spec2Model ----------------------------
(***************************************************************************)
(* Model of the Emoticon analytics cog (src/cogs/emoticon).                *)
(*                                                                         *)
(* Spec      : the scan orchestrator (Emoticon.scan / stop_scan) running   *)
(*             on the cooperative scheduler.  One action is the code       *)
(*             executed between the completion of one await and the start  *)
(*             of the next.                                                *)
(* SpecQuery : the permission-filtered aggregation commands (info,         *)
(*             leaderboard, profile, compare) over a changing store of     *)
(*             usage rows and changing channel permissions.                *)
(* SpecMerge : the settings resolver (merge_settings) applied to every     *)
(*             combination of global, command and runtime tiers.           *)
(* SpecTrack : the tracking gate (_should_track_emoji) applied to every    *)
(*             emoji, tracking mode and set of EmojiFilter rows.           *)
(* SpecLive  : the event listeners (message sent, edited, deleted,         *)
(*             reaction added, removed) and the settings commands; one     *)
(*             action is one listener or command run to its end.           *)
(* SpecSettings : Spec with the filter settings command run at any time.   *)
(* SpecAccess : one scan invocation and stop commands, with any channel      *)
(*             history and any reaction's users refused to the bot.        *)
(* SpecExtract : the extractor (extract_from_message) applied to every      *)
(*             message text of up to MaxLen pieces.                        *)
(* SpecParse : the query parser (QueryParser.parse) applied to every query  *)
(*             of up to MaxTokens tokens, character by character.          *)
(* SpecDates : a query with date tokens parsed and its date bounds applied  *)
(*             to the timestamp of a usage row.                            *)
(* SpecFair  : Spec with weak fairness of every step of a scan.            *)
(* SpecIgnore : SpecLive with the ignore command for a category.           *)
(* SpecPaginator : the leaderboard paginator view and its two buttons.     *)
(***************************************************************************)
EXTENDS Integers, Sequences, FiniteSets, TLC

\* ------------------------------------------------------------------ bounds
\* number of /emoticon scan invocations in one behaviour
MaxScans == 2

Procs == 1..MaxScans

\* ------------------------------------------------------------- environment
Guilds == {1, 2}

\* guild.text_channels, in guild order
TextChannels(g) == IF g = 1 THEN <<11, 12>> ELSE <<21>>

\* channel.category_id, 0 for a channel outside every category (None)
CategoryOf(ch) == IF ch = 11 THEN 5 ELSE 0

\* scan and on_message: "channel.category_id and channel.category_id in
\* config.ignored_categories"
CategoryIgnored(ch, config) ==
    CategoryOf(ch) # 0 /\ CategoryOf(ch) \in config.ignored_categories

\* users of the platform; bot accounts have user.bot = True
BotUsers == {90}

\* one message of a channel history: id, author, the emojis of its content as
\* extract_from_message returns them (already consolidated), and its
\* reactions, each with reaction.emoji and the users of reaction.users()
Msg(id, author, emojis, reactions) ==
    [id |-> id, author |-> author, emojis |-> emojis, reactions |-> reactions]

\* ExtractedEmoji of a custom emoji; emoji_id 0 stands for None
CustomEmoji(id, name, external, count) ==
    [emoji_id |-> id, emoji_name |-> name, is_external |-> external, count |-> count]

\* ExtractedEmoji of a unicode emoji
Emo(name, count) == CustomEmoji(0, name, FALSE, count)

\* channel.history(limit=None), oldest first
History(ch) ==
    CASE ch = 11 -> << Msg(1, 1, {Emo("a", 2)}, {[emoji |-> Emo("b", 2), users |-> {2, 90}]}),
                       Msg(2, 90, {Emo("a", 1)}, {}) >>
      [] ch = 12 -> << Msg(3, 2, {Emo("b", 1)}, {}) >>
      [] ch = 21 -> << Msg(4, 1, {Emo("a", 1), CustomEmoji(103, "y", TRUE, 1)}, {}) >>
      [] OTHER   -> << >>

\* channels whose history the bot may be refused (discord.Forbidden)
ForbiddenChannels == {12}

\* --------------------------------------------------------------- rows
\* ScanProgress row; status "absent" stands for "no row" (get_or_none -> None)
ProgressRow(st) ==
    [status |-> st, total_channels |-> 0, scanned_channels |-> 0,
     scanned_messages |-> 0, emojis_found |-> 0, last_error |-> ""]

\* EmoticonConfig row with the field defaults of the model class
DefaultConfig(g) ==
    [guild_id |-> g, ignored_channels |-> {}, ignored_categories |-> {},
     tracking_mode |-> "all", allow_external_emojis |-> TRUE,
     last_scan_timestamp |-> 0, last_scan_message_id |-> 0,
     admin_override_roles |-> {}, retain_deleted |-> TRUE, track_edits |-> TRUE]

\* ------------------------------------------------------------- variables
VARIABLES
    scans,             \* per invocation of scan(): its position and locals
    scan_lock,         \* self._scan_lock: [locked, waiters]
    scan_cancel_flag,  \* self._scan_cancel_flag: dict guild_id -> bool
    ScanProgress,      \* persisted ScanProgress row per guild
    EmoticonConfig,    \* persisted EmoticonConfig row per guild
    EmojiUsage,        \* persisted EmojiUsage rows: a bag (row -> multiplicity)
    EmojiFilter,       \* persisted EmojiFilter rows (guild, emoji id, name, filter_type)
    doneScanned,       \* history: message ids processed by completed non-dry scans, per guild
    perms,             \* channels whose overwrites grant view_channel to ordinary members
    lastQuery,         \* the last aggregation command run and the reply it produced
    messages,          \* the platform's messages: status, content, reactions
    call               \* a call of a pure function: its arguments and its result

vars == <<scans, scan_lock, scan_cancel_flag, ScanProgress, EmoticonConfig,
          EmojiUsage, EmojiFilter, doneScanned, perms, lastQuery, messages, call>>

\* ------------------------------------------------------------- bag helpers
RECURSIVE SumCount(_)
\* sum of the count field over a set of rows
SumCount(S) ==
    IF S = {} THEN 0
    ELSE LET r == CHOOSE x \in S : TRUE IN r.count + SumCount(S \ {r})

Mult(bag, r) == IF r \in DOMAIN bag THEN bag[r] ELSE 0

\* EmojiUsage.create for every row of S
CreateAll(bag, S) ==
    [r \in (DOMAIN bag) \cup S |-> Mult(bag, r) + (IF r \in S THEN 1 ELSE 0)]

\* EmojiUsage.filter(guild_id=g).delete()
DeleteGuild(bag, g) == [r \in {x \in DOMAIN bag : x.guild_id # g} |-> bag[r]]

EmptyBag == [r \in {} |-> 0]

\* ------------------------------------------------------------ tracking gate
\* Emoticon._should_track_emoji
ShouldTrack(emoji, config, filters) ==
    IF emoji.is_external /\ ~config.allow_external_emojis THEN FALSE
    ELSE IF config.tracking_mode = "all" THEN TRUE
    ELSE LET entry == \E f \in filters :
                         /\ f.guild_id = config.guild_id
                         /\ f.emoji_name = emoji.emoji_name
                         /\ f.filter_type = config.tracking_mode
         IN IF config.tracking_mode = "whitelist" THEN entry ELSE ~entry

\* Emoticon._record_emoji_usage: the row EmojiUsage.create receives
UsageRow(g, ch, user, msg, emoji, is_reaction, count) ==
    [guild_id |-> g, channel_id |-> ch, user_id |-> user, message_id |-> msg,
     emoji_id |-> emoji.emoji_id, emoji_name |-> emoji.emoji_name,
     is_external |-> emoji.is_external, is_reaction |-> is_reaction, count |-> count]

\* ------------------------------------------------------- scan: per message
RECURSIVE SumReactionCount(_)
\* sum of reaction.count over a set of reactions
SumReactionCount(R) ==
    IF R = {} THEN 0
    ELSE LET r == CHOOSE x \in R : TRUE
         IN Cardinality(r.users) + SumReactionCount(R \ {r})

TrackedEmojis(m, config, filters) ==
    {e \in m.emojis : ShouldTrack(e, config, filters)}

TrackedReactions(m, config, filters) ==
    {r \in m.reactions : ShouldTrack(r.emoji, config, filters)}

\* rows the scan creates for the content of message m (not a dry run)
ContentRows(g, ch, m, config, filters) ==
    {UsageRow(g, ch, m.author, m.id, e, FALSE, e.count) :
        e \in TrackedEmojis(m, config, filters)}

\* rows the scan creates for the reactions of message m: one per non-bot user
\* of every tracked reaction, except the reactions in denied, whose
\* reaction.users() raises discord.Forbidden (caught, the reaction is passed over)
ReactionRows(g, ch, m, config, filters, denied) ==
    UNION { {UsageRow(g, ch, u, m.id, r.emoji, TRUE, 1) : u \in r.users \ BotUsers} :
            r \in TrackedReactions(m, config, filters) \ denied }

\* mutant: every reaction adds reaction.count, as in a dry run
EmojisFoundByReactionCount(g, ch, m, config, filters, dry_run, denied) ==
    SumCount(TrackedEmojis(m, config, filters))
    + SumReactionCount(TrackedReactions(m, config, filters))

\* what one message adds to progress.emojis_found
EmojisFound(g, ch, m, config, filters, dry_run, denied) ==
    SumCount(TrackedEmojis(m, config, filters))
    + (IF dry_run
       THEN SumReactionCount(TrackedReactions(m, config, filters))
       ELSE Cardinality(ReactionRows(g, ch, m, config, filters, denied)))

\* channel.history(limit=None, after=after_message); after_message is fetched
\* only in append mode with a non-null config.last_scan_message_id, and stays
\* None when the message is not found in the channel
HistoryAfter(ch, sync_mode, config) ==
    LET wm == config.last_scan_message_id
        found == sync_mode = "append" /\ wm # 0
                 /\ \E i \in 1..Len(History(ch)) : History(ch)[i].id = wm
    IN IF found THEN SelectSeq(History(ch), LAMBDA m : m.id > wm) ELSE History(ch)

\* ------------------------------------------------------- scan: lock, flag
\* mutant: the lock is entered without testing it
LockFreeNoTest(lock) == TRUE

\* asyncio.Lock.acquire returns at once only on a free lock nobody waits for
LockFree(lock) == ~lock.locked /\ lock.waiters = << >>

\* mutant: the lock is left held when the routine exits
LockReleaseKept(lock) == lock

\* leaving "async with self._scan_lock"
LockRelease(lock) == [lock EXCEPT !.locked = FALSE]

\* self._scan_cancel_flag.get(guild_id, False)
CancelRequested(flags, g) == g \in DOMAIN flags /\ flags[g]

\* finally: self._scan_cancel_flag.pop(guild_id, None)
PopFlag(flags, g) == [x \in (DOMAIN flags) \ {g} |-> flags[x]]

\* the first test of scan(): "a scan is running, show status instead"
ScanRunning(lock, flags, g) == lock.locked /\ g \in DOMAIN flags

\* mutant: the stop command sets the flag of every guild that has one
SetCancelFlagAll(flags, g) == [h \in DOMAIN flags |-> TRUE]

\* stop_scan(): self._scan_cancel_flag[interaction.guild.id] = True
SetCancelFlag(flags, g) == [flags EXCEPT ![g] = TRUE]

\* the test of stop_scan(): "there is no scan currently running"
NoActiveScan(lock, flags, g) == ~lock.locked \/ g \notin DOMAIN flags

\* the channels a scan of guild g targets (scope = "server")
TargetChannels(g, config) ==
    SelectSeq(TextChannels(g), LAMBDA ch : /\ ch \notin config.ignored_channels
                                           /\ ~CategoryIgnored(ch, config))

\* ------------------------------------------------------- scan: invocations
\* the (sync_mode, dry_run) arguments tried in each guild
ScanArgs(g) ==
    IF g = 1 THEN {"append", "rescan"} \X BOOLEAN ELSE {<<"append", FALSE>>}

IdleScan ==
    [pc |-> "idle", guild |-> 0, sync_mode |-> "append", dry_run |-> FALSE,
     channels |-> << >>, ci |-> 0, mi |-> 0,
     progress |-> ProgressRow("absent"), config |-> DefaultConfig(0),
     \* history of the invocation, read by the properties only
     overlap |-> FALSE, stopped |-> FALSE, cancelled |-> FALSE, raised |-> "",
     consumed |-> 0, processed |-> {}]

\* positions of an accepted request that has not exited
Accepted == {"send_loading", "wait_lock", "get_config", "get_or_create",
             "save_scanning", "delete_usage", "history", "save_channel",
             "save_cancelled", "save_completed", "save_config", "send_result",
             "save_failed", "send_failed"}

\* positions holding the lock
Holding == Accepted \ {"send_loading", "wait_lock"}

\* positions of the scan body: ScanProgress was initialised to "scanning"
Body == Holding \ {"get_config", "get_or_create"}

\* the head of "for channel in channels", entered with channel index i;
\* past the last channel it is the code after the loop
LoopHead(s, i, flags) ==
    IF CancelRequested(flags, s.guild)
    THEN [s EXCEPT !.progress.status = "cancelled", !.cancelled = TRUE,
                   !.pc = "save_cancelled", !.ci = i]
    ELSE IF i > Len(s.channels)
    THEN [s EXCEPT !.progress.status = "completed", !.pc = "save_completed", !.ci = i]
    ELSE [s EXCEPT !.pc = "history", !.ci = i, !.mi = 1]

\* except Exception as e: progress.status = "failed"; progress.last_error = str(e)
EnterExcept(s, err) ==
    [s EXCEPT !.progress.status = "failed", !.progress.last_error = err,
              !.pc = "save_failed", !.raised = IF @ = "" THEN err ELSE @]

\* mutant: discord.Forbidden from a channel is not caught per channel
ForbiddenRaises(s, flags) == EnterExcept(s, "Forbidden")

\* except discord.Forbidden: the channel is logged and left, "continue" goes
\* to the head of the channel loop
ForbiddenSkips(s, flags) == LoopHead(s, s.ci + 1, flags)

\* the routine returned or raised out of scan(): its locals are gone
Exited == [IdleScan EXCEPT !.pc = "done"]

\* the routine returned after reporting the progress of the running scan
Reported == [IdleScan EXCEPT !.pc = "reported"]

\* no aggregation command has run yet
NoQuery == [viewer |-> 0, command |-> "", query |-> "", result |-> "", rank |-> 0]

\* no message is modelled
NoMessages == [m \in {} |-> 0]

\* no pure function is being called
NoCall == [fn |-> ""]

Init ==
    /\ scans = [p \in Procs |-> IdleScan]
    /\ scan_lock = [locked |-> FALSE, waiters |-> << >>]
    /\ scan_cancel_flag = [g \in {} |-> FALSE]
    /\ ScanProgress = [g \in Guilds |-> ProgressRow("absent")]
    /\ EmoticonConfig = [g \in Guilds |-> DefaultConfig(g)]
    /\ EmojiUsage = EmptyBag
    /\ EmojiFilter = {}
    /\ doneScanned = [g \in Guilds |-> {}]
    /\ perms = {}
    /\ lastQuery = NoQuery
    /\ messages = NoMessages
    /\ call = NoCall

\* scan(): the test at entry.  Invocations are numbered in order of arrival.
ScanRequest(p) ==
    /\ scans[p].pc = "idle"
    /\ IF p = 1 THEN TRUE ELSE scans[p - 1].pc # "idle"
    /\ \E g \in Guilds :
         scans' = [scans EXCEPT ![p] =
            [@ EXCEPT !.guild = g,
                      !.overlap = \E q \in Procs \ {p} :
                                     scans[q].guild = g /\ scans[q].pc \in Accepted,
                      !.pc = IF ScanRunning(scan_lock, scan_cancel_flag, g)
                             THEN "get_progress" ELSE "send_loading"]]
    /\ UNCHANGED <<scan_lock, scan_cancel_flag, ScanProgress, EmoticonConfig,
                   EmojiUsage, EmojiFilter, doneScanned, perms, lastQuery, messages, call>>

\* scan(): ScanProgress.get_or_none returned; report progress or go on
CheckProgress(p) ==
    /\ scans[p].pc = "get_progress"
    /\ scans' = [scans EXCEPT ![p] =
                   IF ScanProgress[@.guild].status = "scanning"
                   THEN Reported ELSE [@ EXCEPT !.pc = "send_loading"]]
    /\ UNCHANGED <<scan_lock, scan_cancel_flag, ScanProgress, EmoticonConfig,
                   EmojiUsage, EmojiFilter, doneScanned, perms, lastQuery, messages, call>>

\* scan(): "Starting Scan" was sent; reset the flag and enter the lock
StartScan(p) ==
    /\ scans[p].pc = "send_loading"
    /\ scan_cancel_flag' =
          [g \in (DOMAIN scan_cancel_flag) \cup {scans[p].guild} |->
              IF g = scans[p].guild THEN FALSE ELSE scan_cancel_flag[g]]
    /\ IF LockFree(scan_lock)
       THEN /\ scan_lock' = [scan_lock EXCEPT !.locked = TRUE]
            /\ scans' = [scans EXCEPT ![p].pc = "get_config"]
       ELSE /\ scan_lock' = [scan_lock EXCEPT !.waiters = Append(@, p)]
            /\ scans' = [scans EXCEPT ![p].pc = "wait_lock"]
    /\ UNCHANGED <<ScanProgress, EmoticonConfig, EmojiUsage, EmojiFilter,
                   doneScanned, perms, lastQuery, messages, call>>

\* the first waiter of the released lock runs and takes it
LockGranted(p) ==
    /\ scans[p].pc = "wait_lock"
    /\ ~scan_lock.locked
    /\ Head(scan_lock.waiters) = p
    /\ scan_lock' = [locked |-> TRUE, waiters |-> Tail(scan_lock.waiters)]
    /\ scans' = [scans EXCEPT ![p].pc = "get_config"]
    /\ UNCHANGED <<scan_cancel_flag, ScanProgress, EmoticonConfig, EmojiUsage,
                   EmojiFilter, doneScanned, perms, lastQuery, messages, call>>

\* self._get_config returned; the target channels are computed.  sync_mode and
\* dry_run are arguments of the call that nothing reads before this point, so
\* the model draws them here
GetConfig(p) ==
    /\ scans[p].pc = "get_config"
    /\ \E args \in ScanArgs(scans[p].guild) :
       LET g == scans[p].guild
           config == EmoticonConfig[g]
       IN scans' = [scans EXCEPT ![p] =
            [@ EXCEPT !.config = config,
                      !.sync_mode = args[1], !.dry_run = args[2],
                      !.channels = TargetChannels(g, config),
                      !.pc = "get_or_create"]]
    /\ UNCHANGED <<scan_lock, scan_cancel_flag, ScanProgress, EmoticonConfig,
                   EmojiUsage, EmojiFilter, doneScanned, perms, lastQuery, messages, call>>

\* ScanProgress.get_or_create returned; the counters are reset in memory
GetOrCreate(p) ==
    /\ scans[p].pc = "get_or_create"
    /\ LET g == scans[p].guild
           row == IF ScanProgress[g].status = "absent"
                  THEN ProgressRow("idle") ELSE ScanProgress[g]
       IN /\ ScanProgress' = [ScanProgress EXCEPT ![g] = row]
          /\ scans' = [scans EXCEPT ![p] =
                [@ EXCEPT !.progress =
                      [row EXCEPT !.status = "scanning",
                                  !.total_channels = Len(scans[p].channels),
                                  !.scanned_channels = 0,
                                  !.scanned_messages = 0,
                                  !.emojis_found = 0],
                          !.pc = "save_scanning"]]
    /\ UNCHANGED <<scan_lock, scan_cancel_flag, EmoticonConfig, EmojiUsage,
                   EmojiFilter, doneScanned, perms, lastQuery, messages, call>>

\* mutant: a rescan deletes the rows even in a dry run
ClearsExistingInDryRun(sync_mode, dry_run) == sync_mode = "rescan"

\* whether this run deletes the guild's rows first
ClearsExisting(sync_mode, dry_run) == sync_mode = "rescan" /\ ~dry_run

\* progress.save() with status "scanning" returned
SaveScanning(p) ==
    /\ scans[p].pc = "save_scanning"
    /\ ScanProgress' = [ScanProgress EXCEPT ![scans[p].guild] = scans[p].progress]
    /\ scans' = [scans EXCEPT ![p] =
          IF ClearsExisting(@.sync_mode, @.dry_run)
          THEN [@ EXCEPT !.pc = "delete_usage"]
          ELSE LoopHead(@, 1, scan_cancel_flag)]
    /\ UNCHANGED <<scan_lock, scan_cancel_flag, EmoticonConfig, EmojiUsage,
                   EmojiFilter, doneScanned, perms, lastQuery, messages, call>>

\* EmojiUsage.filter(guild_id=...).delete() returned
DeleteUsage(p) ==
    /\ scans[p].pc = "delete_usage"
    /\ EmojiUsage' = DeleteGuild(EmojiUsage, scans[p].guild)
    /\ scans' = [scans EXCEPT ![p] = LoopHead(@, 1, scan_cancel_flag)]
    /\ UNCHANGED <<scan_lock, scan_cancel_flag, ScanProgress, EmoticonConfig,
                   EmojiFilter, doneScanned, perms, lastQuery, messages, call>>

\* the delete raised: it is outside the try, so neither the except nor the
\* finally clause runs; only the lock is released
DeleteUsageFails(p) ==
    /\ scans[p].pc = "delete_usage"
    /\ scan_lock' = LockRelease(scan_lock)
    /\ scans' = [scans EXCEPT ![p] = Exited]
    /\ UNCHANGED <<scan_cancel_flag, ScanProgress, EmoticonConfig, EmojiUsage,
                   EmojiFilter, doneScanned, perms, lastQuery, messages, call>>

\* the channel history delivered its next message, or ended
HistoryNext(p, refused) ==
    /\ scans[p].pc = "history"
    /\ LET s == scans[p]
           g == s.guild
           ch == s.channels[s.ci]
           msgs == HistoryAfter(ch, s.sync_mode, s.config)
       IN IF s.mi > Len(msgs)
          THEN \* the iterator is exhausted
               /\ scans' = [scans EXCEPT ![p] =
                     [@ EXCEPT !.progress.scanned_channels = @ + 1,
                               !.consumed = @ + 1, !.pc = "save_channel"]]
               /\ UNCHANGED EmojiUsage
          ELSE LET m == msgs[s.mi] IN
               IF CancelRequested(scan_cancel_flag, g)
               THEN \* break, then the code after the inner loop
                    /\ scans' = [scans EXCEPT ![p] =
                          [@ EXCEPT !.progress.scanned_channels = @ + 1,
                                    !.pc = "save_channel"]]
                    /\ UNCHANGED EmojiUsage
               ELSE IF m.author \in BotUsers
               THEN /\ scans' = [scans EXCEPT ![p].mi = @ + 1]
                    /\ UNCHANGED EmojiUsage
               ELSE \* reaction.users() of the reactions in denied raises
                    \* discord.Forbidden; a dry run does not call it
                    \E denied \in (IF s.dry_run \/ m.id \notin refused THEN {{}}
                                   ELSE SUBSET TrackedReactions(m, s.config, EmojiFilter)) :
                    /\ scans' = [scans EXCEPT ![p] =
                          [@ EXCEPT !.progress.scanned_messages = @ + 1,
                                    !.progress.emojis_found =
                                        @ + EmojisFound(g, ch, m, s.config, EmojiFilter,
                                                        s.dry_run, denied),
                                    !.processed = @ \cup {m.id},
                                    !.mi = @ + 1]]
                    /\ EmojiUsage' =
                          IF s.dry_run THEN EmojiUsage
                          ELSE CreateAll(CreateAll(EmojiUsage,
                                    ContentRows(g, ch, m, s.config, EmojiFilter)),
                                    ReactionRows(g, ch, m, s.config, EmojiFilter, denied))
    /\ UNCHANGED <<scan_lock, scan_cancel_flag, ScanProgress, EmoticonConfig,
                   EmojiFilter, doneScanned, perms, lastQuery, messages, call>>

\* discord.Forbidden from the channel: logged, the channel is skipped
HistoryForbidden(p, forbidden) ==
    /\ scans[p].pc = "history"
    /\ scans[p].channels[scans[p].ci] \in forbidden
    /\ scans' = [scans EXCEPT ![p] = ForbiddenSkips(@, scan_cancel_flag)]
    /\ UNCHANGED <<scan_lock, scan_cancel_flag, ScanProgress, EmoticonConfig,
                   EmojiUsage, EmojiFilter, doneScanned, perms, lastQuery, messages, call>>

\* any other exception from the history iteration reaches "except Exception"
HistoryFails(p) ==
    /\ scans[p].pc = "history"
    /\ scans' = [scans EXCEPT ![p] = EnterExcept(@, "HTTPException")]
    /\ UNCHANGED <<scan_lock, scan_cancel_flag, ScanProgress, EmoticonConfig,
                   EmojiUsage, EmojiFilter, doneScanned, perms, lastQuery, messages, call>>

\* progress.save() after a channel returned; on to the next channel
SaveChannel(p) ==
    /\ scans[p].pc = "save_channel"
    /\ ScanProgress' = [ScanProgress EXCEPT ![scans[p].guild] = scans[p].progress]
    /\ scans' = [scans EXCEPT ![p] = LoopHead(@, @.ci + 1, scan_cancel_flag)]
    /\ UNCHANGED <<scan_lock, scan_cancel_flag, EmoticonConfig, EmojiUsage,
                   EmojiFilter, doneScanned, perms, lastQuery, messages, call>>

\* progress.save() with status "cancelled" returned.  The next statement builds
\* the reply with warning_embed, a name the module does not import: NameError,
\* caught by "except Exception"
SaveCancelled(p) ==
    /\ scans[p].pc = "save_cancelled"
    /\ ScanProgress' = [ScanProgress EXCEPT ![scans[p].guild] = scans[p].progress]
    /\ scans' = [scans EXCEPT ![p] = EnterExcept(@, "NameError")]
    /\ UNCHANGED <<scan_lock, scan_cancel_flag, EmoticonConfig, EmojiUsage,
                   EmojiFilter, doneScanned, perms, lastQuery, messages, call>>

\* progress.save() with status "completed" returned
SaveCompleted(p) ==
    /\ scans[p].pc = "save_completed"
    /\ ScanProgress' = [ScanProgress EXCEPT ![scans[p].guild] = scans[p].progress]
    /\ scans' = [scans EXCEPT ![p] =
          IF ~@.dry_run
          THEN [@ EXCEPT !.config.last_scan_timestamp = p, !.pc = "save_config"]
          ELSE [@ EXCEPT !.pc = "send_result"]]
    /\ UNCHANGED <<scan_lock, scan_cancel_flag, EmoticonConfig, EmojiUsage,
                   EmojiFilter, doneScanned, perms, lastQuery, messages, call>>

\* config.save() returned: the row is written from the scan's copy
SaveConfig(p) ==
    /\ scans[p].pc = "save_config"
    /\ EmoticonConfig' = [EmoticonConfig EXCEPT ![scans[p].guild] = scans[p].config]
    /\ scans' = [scans EXCEPT ![p].pc = "send_result"]
    /\ UNCHANGED <<scan_lock, scan_cancel_flag, ScanProgress, EmojiUsage,
                   EmojiFilter, doneScanned, perms, lastQuery, messages, call>>

\* the completion message was sent: finally pops the flag, the lock is released
SendResult(p) ==
    /\ scans[p].pc = "send_result"
    /\ scan_cancel_flag' = PopFlag(scan_cancel_flag, scans[p].guild)
    /\ scan_lock' = LockRelease(scan_lock)
    /\ scans' = [scans EXCEPT ![p] = Exited]
    /\ doneScanned' = IF scans[p].dry_run THEN doneScanned
                      ELSE [doneScanned EXCEPT ![scans[p].guild] = @ \cup scans[p].processed]
    /\ UNCHANGED <<ScanProgress, EmoticonConfig, EmojiUsage, EmojiFilter,
                   perms, lastQuery, messages, call>>

\* sending the completion message raised
SendResultFails(p) ==
    /\ scans[p].pc = "send_result"
    /\ scans' = [scans EXCEPT ![p] = EnterExcept(@, "HTTPException")]
    /\ UNCHANGED <<scan_lock, scan_cancel_flag, ScanProgress, EmoticonConfig,
                   EmojiUsage, EmojiFilter, doneScanned, perms, lastQuery, messages, call>>

\* progress.save() with status "failed" returned
SaveFailed(p) ==
    /\ scans[p].pc = "save_failed"
    /\ ScanProgress' = [ScanProgress EXCEPT ![scans[p].guild] = scans[p].progress]
    /\ scans' = [scans EXCEPT ![p].pc = "send_failed"]
    /\ UNCHANGED <<scan_lock, scan_cancel_flag, EmoticonConfig, EmojiUsage,
                   EmojiFilter, doneScanned, perms, lastQuery, messages, call>>

\* the failure message was sent: finally pops the flag, the lock is released
SendFailed(p) ==
    /\ scans[p].pc = "send_failed"
    /\ scan_cancel_flag' = PopFlag(scan_cancel_flag, scans[p].guild)
    /\ scan_lock' = LockRelease(scan_lock)
    /\ scans' = [scans EXCEPT ![p] = Exited]
    /\ UNCHANGED <<ScanProgress, EmoticonConfig, EmojiUsage, EmojiFilter,
                   doneScanned, perms, lastQuery, messages, call>>

\* -------------------------------------------------------------- stop_scan
\* stop_scan(): without an active scan only "No Active Scan" is answered;
\* otherwise the flag is set (the reply is then built with warning_embed, which
\* the module does not import, so the command ends in NameError)
StopScan(g) ==
    /\ IF NoActiveScan(scan_lock, scan_cancel_flag, g)
       THEN UNCHANGED <<scans, scan_cancel_flag, messages, call>>
       ELSE /\ scan_cancel_flag' = SetCancelFlag(scan_cancel_flag, g)
            /\ scans' = [p \in Procs |->
                           IF scans[p].guild = g /\ scans[p].pc \in Body
                           THEN [scans[p] EXCEPT !.stopped = TRUE] ELSE scans[p]]
    /\ UNCHANGED <<scan_lock, ScanProgress, EmoticonConfig, EmojiUsage,
                   EmojiFilter, doneScanned, perms, lastQuery, messages, call>>

Next ==
    \/ \E p \in Procs : ScanRequest(p)
    \/ \E p \in Procs : CheckProgress(p)
    \/ \E p \in Procs : StartScan(p)
    \/ \E p \in Procs : LockGranted(p)
    \/ \E p \in Procs : GetConfig(p)
    \/ \E p \in Procs : GetOrCreate(p)
    \/ \E p \in Procs : SaveScanning(p)
    \/ \E p \in Procs : DeleteUsage(p)
    \/ \E p \in Procs : DeleteUsageFails(p)
    \/ \E p \in Procs : HistoryNext(p, {})
    \/ \E p \in Procs : HistoryForbidden(p, ForbiddenChannels)
    \/ \E p \in Procs : HistoryFails(p)
    \/ \E p \in Procs : SaveChannel(p)
    \/ \E p \in Procs : SaveCancelled(p)
    \/ \E p \in Procs : SaveCompleted(p)
    \/ \E p \in Procs : SaveConfig(p)
    \/ \E p \in Procs : SendResult(p)
    \/ \E p \in Procs : SendResultFails(p)
    \/ \E p \in Procs : SaveFailed(p)
    \/ \E p \in Procs : SendFailed(p)
    \/ \E g \in Guilds : StopScan(g)

Spec == Init /\ [][Next]_vars

\* ===================================================== aggregation commands
\* usage rows stored at once in SpecQuery
MaxRows == 2

\* guild.channels holds text and voice channels; a thread is not among them
\* and guild.get_channel does not find it
VoiceChannels(g) == IF g = 1 THEN {13} ELSE {}

Threads(g) == IF g = 1 THEN {14} ELSE {}

Range(seq) == {seq[i] : i \in 1..Len(seq)}

GuildChannels(g) == Range(TextChannels(g)) \cup VoiceChannels(g)

\* members who run commands: 1 is an ordinary member, 7 the owner of the
\* guild, 8 has the administrator permission, 9 holds role 5
Viewers == {1, 7, 8, 9}

\* guild.owner_id
OwnerId(g) == 7

\* user.guild_permissions.administrator
Administrator(user) == user = 8

\* {role.id for role in user.roles}
RoleIds(user) == IF user = 9 THEN {5} ELSE {}

\* channel.permissions_for(user).view_channel: the owner and administrators
\* hold every permission, other members what the channel overwrites grant
ViewChannel(user, g, ch, granted) ==
    user = OwnerId(g) \/ Administrator(user) \/ ch \in granted

\* mutant: the configured override roles are not consulted
HasAdminOverrideNoRoles(user, g, config) == user = OwnerId(g) \/ Administrator(user)

\* PermissionFilter.has_admin_override
HasAdminOverride(user, g, config) ==
    \/ user = OwnerId(g)
    \/ Administrator(user)
    \/ config.admin_override_roles # {}
         /\ RoleIds(user) \cap config.admin_override_roles # {}

\* PermissionFilter.can_view_channel
CanViewChannel(user, g, ch, granted) ==
    IF ch \notin GuildChannels(g) THEN FALSE ELSE ViewChannel(user, g, ch, granted)

\* mutant: the named channels are kept without a permission check
FilterChannelsUnchecked(user, g, config, channel_ids, granted) == channel_ids

\* PermissionFilter.filter_channels
FilterChannels(user, g, config, channel_ids, granted) ==
    IF HasAdminOverride(user, g, config) THEN channel_ids
    ELSE SelectSeq(channel_ids, LAMBDA ch : CanViewChannel(user, g, ch, granted))

\* PermissionFilter.get_viewable_channels
GetViewableChannels(user, g, config, granted) ==
    IF HasAdminOverride(user, g, config) THEN GuildChannels(g)
    ELSE {ch \in Range(TextChannels(g)) : CanViewChannel(user, g, ch, granted)}

\* ParsedQuery: the lists a query string is parsed into
ParsedQuery(channels, excluded_channels, users, excluded_users, emojis) ==
    [channels |-> channels, excluded_channels |-> excluded_channels,
     users |-> users, excluded_users |-> excluded_users, emojis |-> emojis]

\* the query strings tried, as parsed
Queries ==
    { ParsedQuery(<< >>, << >>, << >>, << >>, << >>),
      ParsedQuery(<<12>>, << >>, << >>, << >>, << >>),
      ParsedQuery(<<11, 12>>, << >>, << >>, <<2>>, << >>),
      ParsedQuery(<<13, 14>>, << >>, << >>, << >>, << >>),
      ParsedQuery(<< >>, <<11>>, << >>, << >>, << >>),
      ParsedQuery(<<12, 11>>, <<11>>, <<1>>, << >>, <<"a">>) }

\* names of the Dataset rows of the guild
DatasetNames(g) == IF g = 1 THEN {"d"} ELSE {}

\* Dataset.channel_ids of the row with that name
Dataset(g, name) == IF name = "d" THEN <<12, 14>> ELSE << >>

\* emoji_name__icontains; the emoji names of the model are single lower-case
\* letters, for which containment is equality
IContains(name, part) == name = part

\* Emoticon._apply_query_filters: the Q object, as the conditions it holds.
\* channel_in {-1} is the impossible condition of an empty permitted list
ApplyQueryFilters(query, g, user, config, granted) ==
    LET allowed == FilterChannels(user, g, config, query.channels, granted)
    IN [guild_id |-> g,
        channel_in |-> IF query.channels # << >>
                       THEN (IF allowed # << >> THEN Range(allowed) ELSE {-1})
                       ELSE GetViewableChannels(user, g, config, granted),
        channel_not_in |-> Range(query.excluded_channels),
        user_in |-> Range(query.users),
        user_not_in |-> Range(query.excluded_users),
        emojis |-> Range(query.emojis)]

\* whether row r satisfies the Q object f
Matches(r, f) ==
    /\ r.guild_id = f.guild_id
    /\ r.user_id > 0
    /\ r.channel_id \in f.channel_in
    /\ r.channel_id \notin f.channel_not_in
    /\ f.user_in # {} => r.user_id \in f.user_in
    /\ r.user_id \notin f.user_not_in
    /\ f.emojis # {} => \E n \in f.emojis : IContains(r.emoji_name, n)

\* EmojiUsage.filter(f): the rows selected from the table
Filter(table, f) == {r \in DOMAIN table : Matches(r, f)}

RECURSIVE SumRows(_, _)
\* Sum('count') over the rows S of the table
SumRows(table, S) ==
    IF S = {} THEN 0
    ELSE LET r == CHOOSE x \in S : TRUE
         IN r.count * table[r] + SumRows(table, S \ {r})

RECURSIVE CountRows(_, _)
\* Count('id') over the rows S of the table
CountRows(table, S) ==
    IF S = {} THEN 0
    ELSE LET r == CHOOSE x \in S : TRUE IN table[r] + CountRows(table, S \ {r})

\* annotate(use_count=Sum('count')).group_by(emoji)
SumByEmoji(table, S) ==
    [n \in {r.emoji_name : r \in S} |->
        SumRows(table, {r \in S : r.emoji_name = n})]

\* annotate(use_count=Sum('count')).group_by('user_id')
SumByUser(table, S) ==
    [u \in {r.user_id : r \in S} |-> SumRows(table, {r \in S : r.user_id = u})]

\* annotate(use_count=Count('id')).group_by('channel_id')
CountByChannel(table, S) ==
    [c \in {r.channel_id : r \in S} |->
        CountRows(table, {r \in S : r.channel_id = c})]

\* annotate(use_count=Count('id')).group_by(emoji)
CountByEmoji(table, S) ==
    [n \in {r.emoji_name : r \in S} |->
        CountRows(table, {r \in S : r.emoji_name = n})]

\* the invocations tried: name and arguments of the command ("" and 0 stand
\* for an argument that is not given or does not apply)
Command(name, emoji, type, dataset, user) ==
    [name |-> name, emoji |-> emoji, type |-> type, dataset |-> dataset, user |-> user]

Commands ==
    { Command("info", "a", "", "", 0),
      Command("leaderboard", "", "global", "", 0),
      Command("leaderboard", "", "user", "d", 0),
      Command("leaderboard", "", "global", "x", 0),
      Command("profile", "", "", "", 2),
      Command("compare", "b", "", "", 1) }

\* info(): totals, top users, top channels of one emoji, and the per-emoji
\* counts its rank is read from
Info(table, f, emoji) ==
    LET S == {r \in Filter(table, f) : r.emoji_name = emoji}
    IN IF SumRows(table, S) = 0 THEN [reply |-> "No Data"]
       ELSE [reply |-> "info", total |-> SumRows(table, S),
             top_users |-> SumByUser(table, S),
             top_channels |-> CountByChannel(table, S),
             all_emojis |-> CountByEmoji(table, Filter(table, f))]

\* leaderboard(): the total and the entries of the chosen type
Leaderboard(table, f, type) ==
    LET S == Filter(table, f)
    IN [reply |-> "leaderboard", total |-> SumRows(table, S),
        entries |-> IF type = "global" THEN SumByEmoji(table, S)
                    ELSE SumByUser(table, S)]

\* profile(): totals of one user, per emoji, and split by reaction and text
Profile(table, f, user) ==
    LET S == {r \in Filter(table, f) : r.user_id = user}
    IN IF SumRows(table, S) = 0 THEN [reply |-> "No Data"]
       ELSE [reply |-> "profile", total |-> SumRows(table, S),
             top_emojis |-> SumByEmoji(table, S),
             reactions |-> SumRows(table, {r \in S : r.is_reaction}),
             texts |-> SumRows(table, {r \in S : ~r.is_reaction})]

\* compare(): the count of a user against the count of an emoji
Compare(table, f, user, emoji) ==
    LET S == Filter(table, f)
    IN [reply |-> "compare",
        count_a |-> SumRows(table, {r \in S : r.user_id = user}),
        count_b |-> SumRows(table, {r \in S : r.emoji_name = emoji})]

\* info(): the server rank, the 1-based position of the emoji in all_emojis
\* ordered by -use_count. The order of entries with equal use_count is the
\* database's, so every position within the tie is possible; 1 when the emoji
\* is not found
InfoRanks(all_emojis, emoji) ==
    IF emoji \notin DOMAIN all_emojis THEN {1}
    ELSE LET above == {n \in DOMAIN all_emojis : all_emojis[n] > all_emojis[emoji]}
             tied == {n \in DOMAIN all_emojis : all_emojis[n] = all_emojis[emoji]}
         IN (Cardinality(above) + 1)..(Cardinality(above) + Cardinality(tied))

\* the reply of command c with query q, run by viewer in guild g
RunCommand(c, q, g, viewer, config, granted, table) ==
    IF c.name = "leaderboard" /\ c.dataset # "" /\ c.dataset \notin DatasetNames(g)
    THEN [reply |-> "Dataset Not Found"]
    ELSE LET parsed == IF c.name = "leaderboard" /\ c.dataset # ""
                       THEN [q EXCEPT !.channels = Dataset(g, c.dataset)] ELSE q
             f == ApplyQueryFilters(parsed, g, viewer, config, granted)
         IN CASE c.name = "info" -> Info(table, f, c.emoji)
              [] c.name = "leaderboard" -> Leaderboard(table, f, c.type)
              [] c.name = "profile" -> Profile(table, f, c.user)
              [] OTHER -> Compare(table, f, c.user, c.emoji)

\* the usage rows that live events may record in SpecQuery
QueryRows ==
    { UsageRow(1, 11, 1, 1, Emo("a", 2), FALSE, 2),
      UsageRow(1, 11, 2, 2, Emo("b", 1), FALSE, 1),
      UsageRow(1, 12, 1, 3, Emo("a", 1), FALSE, 1),
      UsageRow(1, 12, 2, 3, Emo("b", 1), TRUE, 1),
      UsageRow(1, 13, 1, 5, Emo("a", 1), FALSE, 1),
      UsageRow(1, 14, 2, 6, Emo("a", 1), FALSE, 1),
      UsageRow(1, 11, 0, 1, Emo("a", 3), TRUE, 3),
      UsageRow(2, 21, 1, 4, Emo("a", 1), FALSE, 1) }

InitQuery ==
    /\ scans = [p \in Procs |-> IdleScan]
    /\ scan_lock = [locked |-> FALSE, waiters |-> << >>]
    /\ scan_cancel_flag = [g \in {} |-> FALSE]
    /\ ScanProgress = [g \in Guilds |-> ProgressRow("absent")]
    /\ EmoticonConfig = [g \in Guilds |->
            [DefaultConfig(g) EXCEPT !.admin_override_roles = {5},
                                     !.retain_deleted = FALSE]]
    /\ EmojiUsage = EmptyBag
    /\ EmojiFilter = {}
    /\ doneScanned = [g \in Guilds |-> {}]
    /\ perms = {}
    /\ lastQuery = NoQuery
    /\ messages = NoMessages
    /\ call = NoCall

\* _record_emoji_usage: EmojiUsage.create of one row
RecordEmojiUsage(r) ==
    /\ Cardinality(DOMAIN EmojiUsage) < MaxRows
    /\ r \notin DOMAIN EmojiUsage
    /\ EmojiUsage' = CreateAll(EmojiUsage, {r})
    /\ UNCHANGED <<scans, scan_lock, scan_cancel_flag, ScanProgress, EmoticonConfig,
                   EmojiFilter, doneScanned, perms, lastQuery, messages, call>>

\* mutant: the delete keeps the reaction rows of the message
DeleteMessageContentOnly(bag, g, m) ==
    [r \in {x \in DOMAIN bag :
                ~(x.guild_id = g /\ x.message_id = m /\ ~x.is_reaction)} |-> bag[r]]

\* EmojiUsage.filter(guild_id=g, message_id=m).delete()
DeleteMessage(bag, g, m) ==
    [r \in {x \in DOMAIN bag : ~(x.guild_id = g /\ x.message_id = m)} |-> bag[r]]

\* a message that exists on the platform
Live == {"created", "edited"}

\* the message after its deletion
Deleted == [status |-> "deleted", content |-> {}, reaction |-> "none"]

\* on_message_delete: the rows of the message are removed unless retained.
\* Where the messages of the platform are not modelled, the event is one for a
\* message that has rows
OnMessageDelete(g, m) ==
    /\ IF m \in DOMAIN messages THEN g = 1 /\ messages[m].status \in Live
       ELSE \E r \in DOMAIN EmojiUsage : r.guild_id = g /\ r.message_id = m
    /\ messages' = IF m \in DOMAIN messages
                   THEN [messages EXCEPT ![m] = Deleted] ELSE messages
    /\ EmojiUsage' =
          IF ~EmoticonConfig[g].retain_deleted
          THEN DeleteMessage(EmojiUsage, g, m)
          ELSE EmojiUsage
    /\ UNCHANGED <<scans, scan_lock, scan_cancel_flag, ScanProgress, EmoticonConfig,
                   EmojiFilter, doneScanned, perms, lastQuery, call>>

\* the view_channel overwrite of a channel is granted or revoked
PermissionUpdate(ch) ==
    /\ perms' = IF ch \in perms THEN perms \ {ch} ELSE perms \cup {ch}
    /\ UNCHANGED <<scans, scan_lock, scan_cancel_flag, ScanProgress, EmoticonConfig,
                   EmojiUsage, EmojiFilter, doneScanned, lastQuery, messages, call>>

\* info / leaderboard / profile / compare, run by a member of guild 1: the
\* reply is computed from the permissions and the table
AggregationCommand(viewer, c, q) ==
    /\ lastQuery.viewer = 0
    /\ LET result == RunCommand(c, q, 1, viewer, EmoticonConfig[1], perms, EmojiUsage)
       IN \E rank \in (IF result.reply = "info"
                        THEN InfoRanks(result.all_emojis, c.emoji) ELSE {0}) :
             lastQuery' = [viewer |-> viewer, command |-> c, query |-> q,
                           result |-> result, rank |-> rank]
    /\ UNCHANGED <<scans, scan_lock, scan_cancel_flag, ScanProgress, EmoticonConfig,
                   EmojiUsage, EmojiFilter, doneScanned, perms, messages, call>>

\* interaction.followup.send returned: the command is over
FollowupSend ==
    /\ lastQuery.viewer # 0
    /\ lastQuery' = NoQuery
    /\ UNCHANGED <<scans, scan_lock, scan_cancel_flag, ScanProgress, EmoticonConfig,
                   EmojiUsage, EmojiFilter, doneScanned, perms, messages, call>>

NextQuery ==
    \/ \E r \in QueryRows : RecordEmojiUsage(r)
    \/ \E g \in Guilds, m \in 1..6 : OnMessageDelete(g, m)
    \/ \E ch \in GuildChannels(1) : PermissionUpdate(ch)
    \/ \E viewer \in Viewers, c \in Commands, q \in Queries :
          AggregationCommand(viewer, c, q)
    \/ FollowupSend

SpecQuery == InitQuery /\ [][NextQuery]_vars

\* ======================================================== settings resolver
\* Python values are written as strings: "True", "False", "None", and the
\* values of the TieGrouping enum
\* the four field names merge_settings resolves
RenderFields == {"show_ids", "show_percentages", "compact_mode", "tie_grouping"}

\* RenderSettings.max_entries
DefaultMaxEntries == 10

\* RenderSettings(): the defaults of the four display fields
DefaultFields ==
    [k \in RenderFields |->
        CASE k = "show_ids" -> "False"
          [] k = "show_percentages" -> "True"
          [] k = "compact_mode" -> "False"
          [] OTHER -> "group"]

\* values a ComponentSettings row holds in a field (NULL is None)
StoredValues(k) ==
    IF k = "tie_grouping" THEN {"None", "list_all"} ELSE {"None", "True", "False"}

\* no dict: None, or the empty dict, which merge_settings treats alike
NoSettings == [k \in {} |-> "None"]

\* global_dict / command_dict of _get_render_settings: None when the row is
\* absent, else the four fields of the row
Tiers ==
    {NoSettings} \cup
    {s \in [RenderFields -> {"None", "True", "False", "list_all"}] :
        \A k \in RenderFields : s[k] \in StoredValues(k)}

\* ParsedQuery.flags: the keys the flags of the query string set
Flags ==
    UNION {[K -> {"True", "False"}] :
              K \in SUBSET {"show_ids", "compact_mode", "show_percentages"}}

\* mutant: a None of the tier clears the value below it
ApplyTierClearing(result, tier) ==
    [k \in DOMAIN result |-> IF k \in DOMAIN tier THEN tier[k] ELSE result[k]]

\* merge_settings: one 'for key, value in tier.items()' loop
ApplyTier(result, tier) ==
    [k \in DOMAIN result |->
        IF k \in DOMAIN tier /\ tier[k] # "None" THEN tier[k] ELSE result[k]]

\* RenderSettings(**result)
RenderSettings(result) ==
    [show_ids |-> result["show_ids"],
     show_percentages |-> result["show_percentages"],
     compact_mode |-> result["compact_mode"],
     tie_grouping |-> result["tie_grouping"],
     max_entries |-> DefaultMaxEntries]

\* mutant: the global tier is not applied
MergeSettingsNoGlobal(global_settings, command_settings, runtime_flags) ==
    RenderSettings(ApplyTier(ApplyTier(DefaultFields, command_settings), runtime_flags))

\* merge_settings
MergeSettings(global_settings, command_settings, runtime_flags) ==
    RenderSettings(
        ApplyTier(ApplyTier(ApplyTier(DefaultFields, global_settings),
                            command_settings), runtime_flags))

\* the fields of a RenderSettings value as a dict (dataclasses.asdict), the
\* form in which merge_settings takes a tier
AsDict(settings) ==
    [k \in RenderFields \cup {"max_entries"} |->
        CASE k = "show_ids" -> settings.show_ids
          [] k = "show_percentages" -> settings.show_percentages
          [] k = "compact_mode" -> settings.compact_mode
          [] k = "tie_grouping" -> settings.tie_grouping
          [] OTHER -> settings.max_entries]

\* a call of merge_settings about to be made with tiers g, c and r
MergeCall(g, c, r) ==
    [fn |-> "merge_settings", g |-> g, c |-> c, r |-> r, step |-> 0,
     result |-> RenderSettings(DefaultFields), again |-> RenderSettings(DefaultFields)]

InitMerge ==
    /\ scans = [p \in Procs |-> IdleScan]
    /\ scan_lock = [locked |-> FALSE, waiters |-> << >>]
    /\ scan_cancel_flag = [g \in {} |-> FALSE]
    /\ ScanProgress = [g \in Guilds |-> ProgressRow("absent")]
    /\ EmoticonConfig = [g \in Guilds |-> DefaultConfig(g)]
    /\ EmojiUsage = EmptyBag
    /\ EmojiFilter = {}
    /\ doneScanned = [g \in Guilds |-> {}]
    /\ perms = {}
    /\ lastQuery = NoQuery
    /\ messages = NoMessages
    /\ call \in {MergeCall(g, c, r) : g \in Tiers, c \in Tiers, r \in Flags}

\* _get_render_settings: return merge_settings(global_dict, command_dict, runtime_flags)
GetRenderSettings ==
    /\ call.step = 0
    /\ call' = [call EXCEPT !.step = 1,
                            !.result = MergeSettings(call.g, call.c, call.r)]
    /\ UNCHANGED <<scans, scan_lock, scan_cancel_flag, ScanProgress, EmoticonConfig,
                   EmojiUsage, EmojiFilter, doneScanned, perms, lastQuery, messages>>

\* merge_settings applied again, to its own result as the global tier
MergeAgain ==
    /\ call.step = 1
    /\ call' = [call EXCEPT !.step = 2,
                            !.again = MergeSettings(AsDict(call.result),
                                                    NoSettings, NoSettings)]
    /\ UNCHANGED <<scans, scan_lock, scan_cancel_flag, ScanProgress, EmoticonConfig,
                   EmojiUsage, EmojiFilter, doneScanned, perms, lastQuery, messages>>

NextMerge == GetRenderSettings \/ MergeAgain

SpecMerge == InitMerge /\ [][NextMerge]_vars

\* ============================================================ tracking gate
\* the emojis the gate is asked about: two custom emojis of the guild with the
\* same name, an external custom emoji and a unicode emoji
GateEmojis ==
    { CustomEmoji(101, "x", FALSE, 1), CustomEmoji(102, "x", FALSE, 1),
      CustomEmoji(103, "y", TRUE, 1), Emo("a", 1) }

\* EmojiFilter row
FilterEntry(g, id, name, type) ==
    [guild_id |-> g, emoji_id |-> id, emoji_name |-> name, filter_type |-> type]

\* the EmojiFilter rows the table may hold. No two of them agree on guild,
\* name and type, so get_or_none finds at most one row
FilterEntries ==
    { FilterEntry(1, 101, "x", "whitelist"), FilterEntry(1, 101, "x", "blacklist"),
      FilterEntry(1, 103, "y", "whitelist"), FilterEntry(1, 0, "a", "blacklist"),
      FilterEntry(2, 102, "x", "whitelist") }

TrackingModes == {"all", "whitelist", "blacklist"}

\* a call of _should_track_emoji about to be made
TrackCall(emoji) == [fn |-> "should_track", emoji |-> emoji, step |-> 0, result |-> FALSE]

InitTrack ==
    /\ scans = [p \in Procs |-> IdleScan]
    /\ scan_lock = [locked |-> FALSE, waiters |-> << >>]
    /\ scan_cancel_flag = [g \in {} |-> FALSE]
    /\ ScanProgress = [g \in Guilds |-> ProgressRow("absent")]
    /\ \E mode \in TrackingModes, allow \in BOOLEAN :
          EmoticonConfig = [g \in Guilds |->
              [DefaultConfig(g) EXCEPT !.tracking_mode = mode,
                                       !.allow_external_emojis = allow]]
    /\ EmojiUsage = EmptyBag
    /\ EmojiFilter \in SUBSET FilterEntries
    /\ doneScanned = [g \in Guilds |-> {}]
    /\ perms = {}
    /\ lastQuery = NoQuery
    /\ messages = NoMessages
    /\ call \in {TrackCall(e) : e \in GateEmojis}

\* _should_track_emoji(emoji, config) for guild 1
ShouldTrackEmoji ==
    /\ call.step = 0
    /\ call' = [call EXCEPT !.step = 1,
                            !.result = ShouldTrack(call.emoji, EmoticonConfig[1], EmojiFilter)]
    /\ UNCHANGED <<scans, scan_lock, scan_cancel_flag, ScanProgress, EmoticonConfig,
                   EmojiUsage, EmojiFilter, doneScanned, perms, lastQuery, messages>>

NextTrack == ShouldTrackEmoji

SpecTrack == InitTrack /\ [][NextTrack]_vars

\* ============================================================== live events
\* the messages of guild 1 that live events are about
LiveMessageIds == {1, 2, 3}

\* message.channel.id
ChannelOf(m) == IF m = 2 THEN 12 ELSE 11

\* message.author.id; message 3 is written by a bot
AuthorOf(m) == CASE m = 1 -> 1 [] m = 2 -> 2 [] OTHER -> 90

\* what extract_from_message returns for the contents a message may have: a
\* unicode emoji used twice, or a unicode emoji and an external emoji
Contents ==
    { {Emo("a", 2)}, {Emo("a", 1), CustomEmoji(103, "y", TRUE, 1)} }

\* the message the reactor reacts to
ReactedMessages == {1}

\* the member who reacts, and extract_from_reaction of the reaction, with
\* emoji.count = 1
Reactor == 2

ReactionEmoji == Emo("b", 1)

\* a message that was not sent yet
Absent == [status |-> "absent", content |-> {}, reaction |-> "none"]

\* the rows a listener records for content c of message m
MessageRows(m, c, config, filters) ==
    {UsageRow(1, ChannelOf(m), AuthorOf(m), m, e, FALSE, e.count) :
        e \in {x \in c : ShouldTrack(x, config, filters)}}

\* mutant: the rows of the old content are kept
DeleteContentKeepsOld(bag, g, m) == bag

\* EmojiUsage.filter(guild_id=g, message_id=m, is_reaction=False).delete()
DeleteContent(bag, g, m) ==
    [r \in {x \in DOMAIN bag :
                ~(x.guild_id = g /\ x.message_id = m /\ ~x.is_reaction)} |-> bag[r]]

\* record.delete() of one row of the bag
DeleteOne(bag, r) ==
    [x \in {y \in DOMAIN bag : y # r \/ bag[y] > 1} |->
        IF x = r THEN bag[x] - 1 ELSE bag[x]]

InitLive ==
    /\ scans = [p \in Procs |-> IdleScan]
    /\ scan_lock = [locked |-> FALSE, waiters |-> << >>]
    /\ scan_cancel_flag = [g \in {} |-> FALSE]
    /\ ScanProgress = [g \in Guilds |-> ProgressRow("absent")]
    /\ EmoticonConfig = [g \in Guilds |-> DefaultConfig(g)]
    /\ EmojiUsage = EmptyBag
    /\ EmojiFilter = {}
    /\ doneScanned = [g \in Guilds |-> {}]
    /\ perms = {}
    /\ lastQuery = NoQuery
    /\ messages = [m \in LiveMessageIds |-> Absent]
    /\ call = NoCall

\* on_message: message m is sent with content c
OnMessage(m, c) ==
    /\ messages[m].status = "absent"
    /\ messages' = [messages EXCEPT ![m] = [@ EXCEPT !.status = "created", !.content = c]]
    /\ EmojiUsage' =
          IF AuthorOf(m) \in BotUsers THEN EmojiUsage
          ELSE IF ChannelOf(m) \in EmoticonConfig[1].ignored_channels THEN EmojiUsage
          ELSE IF CategoryIgnored(ChannelOf(m), EmoticonConfig[1]) THEN EmojiUsage
          ELSE CreateAll(EmojiUsage, MessageRows(m, c, EmoticonConfig[1], EmojiFilter))
    /\ UNCHANGED <<scans, scan_lock, scan_cancel_flag, ScanProgress, EmoticonConfig,
                   EmojiFilter, doneScanned, perms, lastQuery, call>>

\* on_message_edit: message m is edited to content c
OnMessageEdit(m, c) ==
    /\ messages[m].status \in Live
    /\ messages' = [messages EXCEPT ![m] = [@ EXCEPT !.status = "edited", !.content = c]]
    /\ EmojiUsage' =
          IF AuthorOf(m) \in BotUsers THEN EmojiUsage
          ELSE IF ~EmoticonConfig[1].track_edits THEN EmojiUsage
          ELSE IF ChannelOf(m) \in EmoticonConfig[1].ignored_channels THEN EmojiUsage
          ELSE CreateAll(DeleteContent(EmojiUsage, 1, m),
                         MessageRows(m, c, EmoticonConfig[1], EmojiFilter))
    /\ UNCHANGED <<scans, scan_lock, scan_cancel_flag, ScanProgress, EmoticonConfig,
                   EmojiFilter, doneScanned, perms, lastQuery, call>>

\* on_reaction_add: the reactor reacts to message m
OnReactionAdd(m) ==
    /\ messages[m].status \in Live /\ messages[m].reaction = "none"
    /\ messages' = [messages EXCEPT ![m] = [@ EXCEPT !.reaction = "added"]]
    /\ EmojiUsage' =
          IF Reactor \in BotUsers THEN EmojiUsage
          ELSE IF ChannelOf(m) \in EmoticonConfig[1].ignored_channels THEN EmojiUsage
          ELSE IF ~ShouldTrack(ReactionEmoji, EmoticonConfig[1], EmojiFilter) THEN EmojiUsage
          ELSE CreateAll(EmojiUsage,
                         {UsageRow(1, ChannelOf(m), Reactor, m, ReactionEmoji, TRUE, 1)})
    /\ UNCHANGED <<scans, scan_lock, scan_cancel_flag, ScanProgress, EmoticonConfig,
                   EmojiFilter, doneScanned, perms, lastQuery, call>>

\* on_reaction_remove: the reactor takes the reaction back; unless retained,
\* the first matching row, if any, is deleted
OnReactionRemove(m) ==
    /\ messages[m].status \in Live /\ messages[m].reaction = "added"
    /\ messages' = [messages EXCEPT ![m] = [@ EXCEPT !.reaction = "removed"]]
    /\ LET found == {r \in DOMAIN EmojiUsage :
                        /\ r.guild_id = 1 /\ r.message_id = m /\ r.user_id = Reactor
                        /\ r.emoji_name = ReactionEmoji.emoji_name /\ r.is_reaction}
       IN IF Reactor \in BotUsers \/ EmoticonConfig[1].retain_deleted \/ found = {}
          THEN EmojiUsage' = EmojiUsage
          ELSE \E r \in found : EmojiUsage' = DeleteOne(EmojiUsage, r)
    /\ UNCHANGED <<scans, scan_lock, scan_cancel_flag, ScanProgress, EmoticonConfig,
                   EmojiFilter, doneScanned, perms, lastQuery, call>>

\* /emoticon settings privacy
SettingsPrivacy(g, track_edits, retain_deleted) ==
    /\ EmoticonConfig' = [EmoticonConfig EXCEPT ![g].track_edits = track_edits,
                                                ![g].retain_deleted = retain_deleted]
    /\ UNCHANGED <<scans, scan_lock, scan_cancel_flag, ScanProgress, EmojiUsage,
                   EmojiFilter, doneScanned, perms, lastQuery, messages, call>>

\* /emoticon settings ignore with action add or remove and a channel
SettingsIgnore(g, action, channel) ==
    /\ EmoticonConfig' =
          [EmoticonConfig EXCEPT ![g].ignored_channels =
              IF action = "add" THEN @ \cup {channel} ELSE @ \ {channel}]
    /\ UNCHANGED <<scans, scan_lock, scan_cancel_flag, ScanProgress, EmojiUsage,
                   EmojiFilter, doneScanned, perms, lastQuery, messages, call>>

\* /emoticon settings filters with allow_external given
SettingsFilters(g, allow_external) ==
    /\ EmoticonConfig' =
          [EmoticonConfig EXCEPT ![g].allow_external_emojis = allow_external]
    /\ UNCHANGED <<scans, scan_lock, scan_cancel_flag, ScanProgress, EmojiUsage,
                   EmojiFilter, doneScanned, perms, lastQuery, messages, call>>

NextLive ==
    \/ \E m \in LiveMessageIds, c \in Contents : OnMessage(m, c)
    \/ \E m \in LiveMessageIds, c \in Contents : OnMessageEdit(m, c)
    \/ \E m \in LiveMessageIds : OnMessageDelete(1, m)
    \/ \E m \in ReactedMessages : OnReactionAdd(m)
    \/ \E m \in ReactedMessages : OnReactionRemove(m)
    \/ \E te, rd \in BOOLEAN : SettingsPrivacy(1, te, rd)
    \/ \E action \in {"add", "remove"} : SettingsIgnore(1, action, 12)
    \/ \E allow \in BOOLEAN : SettingsFilters(1, allow)

SpecLive == InitLive /\ [][NextLive]_vars

\* ================================================= scans and settings commands
\* scan and stop_scan as in Spec, with /emoticon settings filters run for
\* guild 2 at any time
NextSettings ==
    \/ Next
    \/ \E allow \in BOOLEAN : SettingsFilters(2, allow)

SpecSettings == Init /\ [][NextSettings]_vars

\* ==================================================== scans refused access
\* channels whose history the bot may be refused in SpecAccess: every target
RefusedChannels == {11, 12, 21}

\* messages whose reaction.users() may be refused in SpecAccess
RefusedReactions == {1, 2, 3, 4}

\* one invocation of scan, stop commands at any time
NextAccess ==
    \/ ScanRequest(1)
    \/ StartScan(1)
    \/ GetConfig(1)
    \/ GetOrCreate(1)
    \/ SaveScanning(1)
    \/ DeleteUsage(1)
    \/ DeleteUsageFails(1)
    \/ HistoryNext(1, RefusedReactions)
    \/ HistoryForbidden(1, RefusedChannels)
    \/ HistoryFails(1)
    \/ SaveChannel(1)
    \/ SaveCancelled(1)
    \/ SaveCompleted(1)
    \/ SaveConfig(1)
    \/ SendResult(1)
    \/ SendResultFails(1)
    \/ SaveFailed(1)
    \/ SendFailed(1)
    \/ \E g \in Guilds : StopScan(g)

SpecAccess == Init /\ [][NextAccess]_vars

\* ================================================================ extractor
\* longest message text, in tokens
MaxLen == 3

\* emoji_id of a unicode emoji (Optional[int]: ids matched by \d+ are never negative)
None == -1

\* ids of guild.emojis, read when the extractor is constructed
GuildEmojiIds == {101, 102}

\* a piece of message text: the custom-emoji tags CUSTOM_EMOJI_PATTERN matches
\* in it (at most one per piece) and the characters of it that lie in a range
\* of UNICODE_EMOJI_PATTERN, in order
Piece(text, tags, chars) == [text |-> text, tags |-> tags, chars |-> chars]

\* match of CUSTOM_EMOJI_PATTERN: group(1) is not None, group(2), int(group(3))
Tag(animated, name, id) == [animated |-> animated, name |-> name, id |-> id]

\* the pieces message texts are made of. U+65E5 is a word character, so it can
\* be a tag's name, and it lies in the range U+24C2..U+1F251 of the unicode
\* pattern
Pieces ==
    { Piece("<:x:101>", <<Tag(FALSE, "x", 101)>>, << >>),
      Piece("<a:x:101>", <<Tag(TRUE, "x", 101)>>, << >>),
      Piece("<:y:101>", <<Tag(FALSE, "y", 101)>>, << >>),
      Piece("<:x:103>", <<Tag(FALSE, "x", 103)>>, << >>),
      Piece("<:U+65E5:102>", <<Tag(FALSE, "U+65E5", 102)>>, <<"U+65E5">>),
      Piece("U+1F600", << >>, <<"U+1F600">>),
      Piece("U+1F600U+2764", << >>, <<"U+1F600", "U+2764">>),
      Piece("<:x:101", << >>, << >>) }

\* message texts: up to n pieces separated by spaces
RECURSIVE Texts(_)

Texts(n) ==
    IF n = 0 THEN {<< >>}
    ELSE Texts(n - 1) \cup {Append(t, p) : t \in {x \in Texts(n - 1) : Len(x) = n - 1}, p \in Pieces}

ExtractedEmoji(id, name, animated, external) ==
    [emoji_id |-> id, emoji_name |-> name, animated |-> animated,
     is_external |-> external, count |-> 1]

\* the first loop of extract_from_message: one ExtractedEmoji per match of the
\* custom pattern, in text order
RECURSIVE CustomMatches(_)

CustomMatches(content) ==
    IF content = << >> THEN << >>
    ELSE LET tags == Head(content).tags
         IN  [i \in 1..Len(tags) |->
                 ExtractedEmoji(tags[i].id, tags[i].name, tags[i].animated,
                                tags[i].id \notin GuildEmojiIds)]
             \o CustomMatches(Tail(content))

\* the second loop: one ExtractedEmoji per character of every match of the
\* unicode pattern, in text order
RECURSIVE UnicodeMatches(_)

UnicodeMatches(content) ==
    IF content = << >> THEN << >>
    ELSE LET chars == Head(content).chars
         IN  [i \in 1..Len(chars) |-> ExtractedEmoji(None, chars[i], FALSE, FALSE)]
             \o UnicodeMatches(Tail(content))

\* key of the consolidation dictionary
ConsolidationKey(emoji) == [emoji_id |-> emoji.emoji_id, emoji_name |-> emoji.emoji_name]

\* _consolidate_emojis, with the dictionary as the sequence of its values in
\* insertion order: the first emoji of a key stays and the counts of the later
\* ones are added to it
RECURSIVE Consolidate(_, _)

Consolidate(emojis, consolidated) ==
    IF emojis = << >> THEN consolidated
    ELSE LET emoji == Head(emojis)
             at == {i \in 1..Len(consolidated) :
                       ConsolidationKey(consolidated[i]) = ConsolidationKey(emoji)}
         IN  Consolidate(Tail(emojis),
                 IF at # {}
                 THEN [i \in 1..Len(consolidated) |->
                          IF i \in at
                          THEN [consolidated[i] EXCEPT !.count = @ + emoji.count]
                          ELSE consolidated[i]]
                 ELSE Append(consolidated, emoji))

ConsolidateEmojis(emojis) == Consolidate(emojis, << >>)

ExtractFromMessage(content) ==
    ConsolidateEmojis(CustomMatches(content) \o UnicodeMatches(content))

\* a call of extract_from_message about to be made
ExtractCall(content) == [fn |-> "extract", content |-> content, step |-> 0, result |-> << >>]

InitExtract ==
    /\ scans = [p \in Procs |-> IdleScan]
    /\ scan_lock = [locked |-> FALSE, waiters |-> << >>]
    /\ scan_cancel_flag = [g \in {} |-> FALSE]
    /\ ScanProgress = [g \in Guilds |-> ProgressRow("absent")]
    /\ EmoticonConfig = [g \in Guilds |-> DefaultConfig(g)]
    /\ EmojiUsage = EmptyBag
    /\ EmojiFilter = {}
    /\ doneScanned = [g \in Guilds |-> {}]
    /\ perms = {}
    /\ lastQuery = NoQuery
    /\ messages = NoMessages
    /\ call \in {ExtractCall(t) : t \in Texts(MaxLen)}

\* extractor.extract_from_message(message.content)
Extract ==
    /\ call.step = 0
    /\ call' = [call EXCEPT !.step = 1, !.result = ExtractFromMessage(call.content)]
    /\ UNCHANGED <<scans, scan_lock, scan_cancel_flag, ScanProgress, EmoticonConfig,
                   EmojiUsage, EmojiFilter, doneScanned, perms, lastQuery, messages>>

NextExtract == Extract

SpecExtract == InitExtract /\ [][NextExtract]_vars

\* ============================================================= query parser
\* most tokens in a query
MaxTokens == 3

\* a string is the sequence of its characters. "SUP2" stands for the character
\* U+00B2 (superscript two): str.isdigit() is true of it, \w matches it, \d
\* does not and int() rejects it
LowerCase == <<"a", "b", "c", "d", "e", "f", "g", "h", "i", "j", "k", "l", "m", "n", "o", "p", "q", "r", "s", "t", "u", "v", "w", "x", "y", "z">>

UpperCase == <<"A", "B", "C", "D", "E", "F", "G", "H", "I", "J", "K", "L", "M", "N", "O", "P", "Q", "R", "S", "T", "U", "V", "W", "X", "Y", "Z">>

Decimals == <<"0", "1", "2", "3", "4", "5", "6", "7", "8", "9">>

\* \d, and the characters int() accepts
IsDecimal(c) == \E i \in 1..10 : Decimals[i] = c

\* the value of a decimal digit
DigitValue(c) == (CHOOSE i \in 1..10 : Decimals[i] = c) - 1

\* str.isdigit() of one character
IsDigit(c) == IsDecimal(c) \/ c = "SUP2"

\* \w
IsWord(c) ==
    \/ \E i \in 1..26 : LowerCase[i] = c \/ UpperCase[i] = c
    \/ IsDigit(c)
    \/ c = "_"

\* str.lower()
Lower(s) ==
    [k \in 1..Len(s) |->
        IF \E i \in 1..26 : UpperCase[i] = s[k]
        THEN LowerCase[CHOOSE i \in 1..26 : UpperCase[i] = s[k]]
        ELSE s[k]]

\* pat occurs in s at position i
StartsWith(s, i, pat) ==
    IF i + Len(pat) - 1 > Len(s) THEN FALSE
    ELSE \A k \in 1..Len(pat) : s[i + k - 1] = pat[k]

\* flag in query
Contains(s, pat) == \E i \in 1..Len(s) : StartsWith(s, i, pat)

\* query.replace(flag, '')
RECURSIVE Replace(_, _)

Replace(s, pat) ==
    IF s = << >> THEN << >>
    ELSE IF StartsWith(s, 1, pat) THEN Replace(SubSeq(s, Len(pat) + 1, Len(s)), pat)
    ELSE <<Head(s)>> \o Replace(Tail(s), pat)

\* the end of the longest run of word characters that starts at i (i - 1 when
\* there is none): the greedy \w+
RECURSIVE RunEnd(_, _)

RunEnd(s, i) ==
    IF i > Len(s) THEN i - 1
    ELSE IF IsWord(s[i]) THEN RunEnd(s, i + 1)
    ELSE i - 1

\* finditer of (-?)SIGIL(\w+|\d+) from position i on: the matches in order,
\* each with group(1) == '-' and group(2)
RECURSIVE SigilMatches(_, _, _)

SigilMatches(s, sigil, i) ==
    IF i > Len(s) THEN << >>
    ELSE IF StartsWith(s, i, <<"-", sigil>>) /\ RunEnd(s, i + 2) >= i + 2
    THEN <<[excluded |-> TRUE, ref |-> SubSeq(s, i + 2, RunEnd(s, i + 2))]>>
         \o SigilMatches(s, sigil, RunEnd(s, i + 2) + 1)
    ELSE IF StartsWith(s, i, <<sigil>>) /\ RunEnd(s, i + 1) >= i + 1
    THEN <<[excluded |-> FALSE, ref |-> SubSeq(s, i + 1, RunEnd(s, i + 1))]>>
         \o SigilMatches(s, sigil, RunEnd(s, i + 1) + 1)
    ELSE SigilMatches(s, sigil, i + 1)

CHANNEL_PATTERN(query) == SigilMatches(query, "#", 1)

USER_PATTERN(query) == SigilMatches(query, "@", 1)

\* finditer of PREFIX(\w+) from position i on: group(1) of each match
RECURSIVE PrefixMatches(_, _, _)

PrefixMatches(s, prefix, i) ==
    IF i > Len(s) THEN << >>
    ELSE IF StartsWith(s, i, prefix) /\ RunEnd(s, i + Len(prefix)) >= i + Len(prefix)
    THEN <<SubSeq(s, i + Len(prefix), RunEnd(s, i + Len(prefix)))>>
         \o PrefixMatches(s, prefix, RunEnd(s, i + Len(prefix)) + 1)
    ELSE PrefixMatches(s, prefix, i + 1)

ROLE_PATTERN(query) == PrefixMatches(query, <<"r", "o", "l", "e", ":">>, 1)

EMOJI_PATTERN(query) == PrefixMatches(query, <<"e", "m", "o", "j", "i", ":">>, 1)

\* \d{4}-\d{2}-\d{2} at position i
DateShape(s, i) ==
    IF i + 9 > Len(s) THEN FALSE
    ELSE /\ \A k \in {0, 1, 2, 3, 5, 6, 8, 9} : IsDecimal(s[i + k])
         /\ s[i + 4] = "-"
         /\ s[i + 7] = "-"

\* search of PREFIX(\d{4}-\d{2}-\d{2}): group(1) of the first match, or the
\* empty string when there is none
DateSearch(s, prefix) ==
    LET at == {i \in 1..Len(s) : StartsWith(s, i, prefix) /\ DateShape(s, i + Len(prefix))}
    IN  IF at = {} THEN << >>
        ELSE LET i == CHOOSE i \in at : \A j \in at : i <= j
             IN  SubSeq(s, i + Len(prefix), i + Len(prefix) + 9)

DATE_AFTER_PATTERN(query) == DateSearch(query, <<"a", "f", "t", "e", "r", ":">>)

DATE_BEFORE_PATTERN(query) == DateSearch(query, <<"b", "e", "f", "o", "r", "e", ":">>)

\* a datetime, to the hour
DateTime(year, month, day, hour) == [year |-> year, month |-> month, day |-> day, hour |-> hour]

\* date_after / date_before of a query that sets none
NoDate == DateTime(0, 0, 0, 0)

DaysIn(year, month) ==
    IF month \in {4, 6, 9, 11} THEN 30
    ELSE IF month # 2 THEN 31
    ELSE IF year % 4 = 0 /\ (year % 100 # 0 \/ year % 400 = 0) THEN 29
    ELSE 28

\* datetime.strptime(text, '%Y-%m-%d') of a text of the shape dddd-dd-dd:
\* midnight of the date, or ValueError
Strptime(text) ==
    LET year == 1000 * DigitValue(text[1]) + 100 * DigitValue(text[2])
                + 10 * DigitValue(text[3]) + DigitValue(text[4])
        month == 10 * DigitValue(text[6]) + DigitValue(text[7])
        day == 10 * DigitValue(text[9]) + DigitValue(text[10])
    IN  IF year >= 1 /\ month \in 1..12 /\ day >= 1 /\ day <= DaysIn(year, month)
        THEN [raises |-> FALSE, value |-> DateTime(year, month, day, 0)]
        ELSE [raises |-> TRUE, value |-> NoDate]

\* int(ref) of a string of decimal digits
RECURSIVE IntOf(_)

IntOf(ref) ==
    IF ref = << >> THEN 0
    ELSE 10 * IntOf(SubSeq(ref, 1, Len(ref) - 1)) + DigitValue(ref[Len(ref)])

\* guild.channels of the guild the parser resolves names in, with their names
ChannelNames ==
    <<[id |-> 11, name |-> <<"g", "e", "n", "e", "r", "a", "l">>],
      [id |-> 12, name |-> <<"o", "f", "f", "-", "t", "o", "p", "i", "c">>],
      [id |-> 13, name |-> <<"V", "o", "i", "c", "e">>]>>

\* guild.members with name and display_name
MemberNames ==
    <<[id |-> 1, name |-> <<"a", "l", "i", "c", "e">>, display_name |-> <<"A", "l", "i", "c", "e">>],
      [id |-> 2, name |-> <<"b", "o", "b">>, display_name |-> <<"B", "o", "b", "b", "y">>]>>

\* _resolve_channel: the id, None, or ValueError raised by int()
ResolveChannel(ref) ==
    IF \A k \in 1..Len(ref) : IsDigit(ref[k])
    THEN IF \A k \in 1..Len(ref) : IsDecimal(ref[k])
         THEN [raises |-> FALSE, id |-> IntOf(ref)]
         ELSE [raises |-> TRUE, id |-> None]
    ELSE LET found == {i \in 1..Len(ChannelNames) : Lower(ChannelNames[i].name) = Lower(ref)}
         IN  IF found = {} THEN [raises |-> FALSE, id |-> None]
             ELSE [raises |-> FALSE,
                   id |-> ChannelNames[CHOOSE i \in found : \A j \in found : i <= j].id]

\* _resolve_user
ResolveUser(ref) ==
    IF \A k \in 1..Len(ref) : IsDigit(ref[k])
    THEN IF \A k \in 1..Len(ref) : IsDecimal(ref[k])
         THEN [raises |-> FALSE, id |-> IntOf(ref)]
         ELSE [raises |-> TRUE, id |-> None]
    ELSE LET found == {i \in 1..Len(MemberNames) :
                          \/ Lower(MemberNames[i].name) = Lower(ref)
                          \/ Lower(MemberNames[i].display_name) = Lower(ref)}
         IN  IF found = {} THEN [raises |-> FALSE, id |-> None]
             ELSE [raises |-> FALSE,
                   id |-> MemberNames[CHOOSE i \in found : \A j \in found : i <= j].id]

\* if channel_id: / if user_id:
Truthy(id) == id # None /\ id # 0

FLAG_PATTERNS ==
    <<[flag |-> <<"-", "-", "n", "o", "-", "i", "d", "s">>, key |-> "show_ids", value |-> FALSE],
      [flag |-> <<"-", "-", "i", "d", "s">>, key |-> "show_ids", value |-> TRUE],
      [flag |-> <<"-", "-", "c", "o", "m", "p", "a", "c", "t">>, key |-> "compact_mode", value |-> TRUE],
      [flag |-> <<"-", "-", "e", "x", "p", "a", "n", "d", "e", "d">>, key |-> "compact_mode", value |-> FALSE],
      [flag |-> <<"-", "-", "n", "o", "-", "p", "e", "r", "c", "e", "n", "t", "a", "g", "e", "s">>, key |-> "show_percentages", value |-> FALSE],
      [flag |-> <<"-", "-", "p", "e", "r", "c", "e", "n", "t", "a", "g", "e", "s">>, key |-> "show_percentages", value |-> TRUE]>>

NoFlags == [k \in {} |-> FALSE]

\* the flag loop of parse from entry n of FLAG_PATTERNS on: the flags set and
\* the query with the flag texts removed
RECURSIVE ParseFlags(_, _, _)

ParseFlags(n, flags, query) ==
    IF n > Len(FLAG_PATTERNS) THEN [flags |-> flags, query |-> query]
    ELSE LET f == FLAG_PATTERNS[n]
         IN  IF Contains(query, f.flag)
             THEN ParseFlags(n + 1,
                             [k \in DOMAIN flags \cup {f.key} |->
                                 IF k = f.key THEN f.value ELSE flags[k]],
                             Replace(query, f.flag))
             ELSE ParseFlags(n + 1, flags, query)

\* a warning of result.errors: the message and the text it quotes
Warning(message, text) == [message |-> message, text |-> text]

\* ParsedQuery as parse returns it; raised is true when parse ends with an
\* exception instead
ParseResult ==
    [raised |-> FALSE, channels |-> << >>, excluded_channels |-> << >>,
     users |-> << >>, excluded_users |-> << >>, roles |-> << >>, emojis |-> << >>,
     date_after |-> NoDate, date_before |-> NoDate, flags |-> NoFlags,
     errors |-> << >>]

\* the channel loop and the user loop of parse over the matches
RECURSIVE ParseRefs(_, _, _)

ParseRefs(kind, matches, result) ==
    IF matches = << >> \/ result.raised THEN result
    ELSE LET m == Head(matches)
             r == IF kind = "channel" THEN ResolveChannel(m.ref) ELSE ResolveUser(m.ref)
         IN  ParseRefs(kind, Tail(matches),
                 IF r.raises THEN [result EXCEPT !.raised = TRUE]
                 ELSE IF ~Truthy(r.id)
                 THEN [result EXCEPT !.errors =
                          Append(@, Warning(IF kind = "channel"
                                            THEN "Could not resolve channel"
                                            ELSE "Could not resolve user", m.ref))]
                 ELSE IF kind = "channel" /\ m.excluded
                 THEN [result EXCEPT !.excluded_channels = Append(@, r.id)]
                 ELSE IF kind = "channel"
                 THEN [result EXCEPT !.channels = Append(@, r.id)]
                 ELSE IF m.excluded
                 THEN [result EXCEPT !.excluded_users = Append(@, r.id)]
                 ELSE [result EXCEPT !.users = Append(@, r.id)])

\* the date part of parse for one bound
ParseDate(text, result, bound) ==
    IF text = << >> \/ result.raised THEN result
    ELSE IF Strptime(text).raises
    THEN [result EXCEPT !.errors = Append(@, Warning("Invalid date format", text))]
    ELSE IF bound = "after" THEN [result EXCEPT !.date_after = Strptime(text).value]
    ELSE [result EXCEPT !.date_before = Strptime(text).value]

\* QueryParser.parse
Parse(raw) ==
    IF raw = << >> THEN ParseResult
    ELSE LET stripped == ParseFlags(1, NoFlags, raw)
             query == stripped.query
             r1 == ParseRefs("channel", CHANNEL_PATTERN(query),
                             [ParseResult EXCEPT !.flags = stripped.flags])
             r2 == ParseRefs("user", USER_PATTERN(query), r1)
             r3 == IF r2.raised THEN r2
                   ELSE [r2 EXCEPT !.roles = ROLE_PATTERN(query),
                                   !.emojis = EMOJI_PATTERN(query)]
             r4 == ParseDate(DATE_AFTER_PATTERN(query), r3, "after")
             r5 == ParseDate(DATE_BEFORE_PATTERN(query), r4, "before")
         IN  IF r5.raised THEN [ParseResult EXCEPT !.raised = TRUE] ELSE r5

\* a token of the query grammar: what introduces it and the reference or
\* value that follows
Token(kind, ref) == [kind |-> kind, ref |-> ref]

\* the text that introduces a token of a kind
KindText(kind) ==
    CASE kind = "#" -> <<"#">>
      [] kind = "-#" -> <<"-", "#">>
      [] kind = "@" -> <<"@">>
      [] kind = "-@" -> <<"-", "@">>
      [] kind = "role:" -> <<"r", "o", "l", "e", ":">>
      [] kind = "emoji:" -> <<"e", "m", "o", "j", "i", ":">>
      [] kind = "after:" -> <<"a", "f", "t", "e", "r", ":">>
      [] kind = "before:" -> <<"b", "e", "f", "o", "r", "e", ":">>
      [] kind = "--" -> <<"-", "-">>
      [] OTHER -> << >>

TokenText(token) == KindText(token.kind) \o token.ref

\* the tokens queries are made of
Tokens ==
    { Token("#", <<"g", "e", "n", "e", "r", "a", "l">>),
      Token("-#", <<"1", "2">>),
      Token("@", <<"a", "l", "i", "c", "e">>),
      Token("-@", <<"1", "2", "3", "4", "5">>),
      Token("role:", <<"M", "o", "d", "s">>),
      Token("emoji:", <<"p", "o", "g">>),
      Token("after:", <<"2", "0", "2", "4", "-", "0", "1", "-", "0", "1">>),
      Token("before:", <<"2", "0", "2", "4", "-", "0", "1", "-", "0", "2">>),
      Token("--", <<"c", "o", "m", "p", "a", "c", "t">>),
      Token("--", <<"i", "d", "s">>),
      Token("--", <<"n", "o", "-", "i", "d", "s">>),
      Token("#", <<"n", "o", "w", "h", "e", "r", "e">>),
      Token("@", <<"g", "h", "o", "s", "t">>),
      Token("after:", <<"2", "0", "2", "4", "-", "1", "3", "-", "0", "1">>),
      Token("after:", <<"2", "0", "2", "4", "-", "0", "2", "-", "0", "1">>),
      Token("#", <<"o", "f", "f", "-", "t", "o", "p", "i", "c">>),
      Token("#", <<"SUP2">>),
      Token("text", <<"h", "e", "l", "l", "o">>) }

\* token sequences of up to n tokens
RECURSIVE TokenSeqs(_)

TokenSeqs(n) ==
    IF n = 0 THEN {<< >>}
    ELSE TokenSeqs(n - 1)
         \cup {Append(t, k) : t \in {x \in TokenSeqs(n - 1) : Len(x) = n - 1}, k \in Tokens}

\* the query string of a token sequence: the token texts separated by spaces
RECURSIVE QueryText(_)

QueryText(tokens) ==
    IF tokens = << >> THEN << >>
    ELSE IF Len(tokens) = 1 THEN TokenText(tokens[1])
    ELSE TokenText(Head(tokens)) \o <<" ">> \o QueryText(Tail(tokens))

\* a call of parse about to be made
ParseCall(tokens) == [fn |-> "parse", tokens |-> tokens, step |-> 0, result |-> ParseResult]

InitParse ==
    /\ scans = [p \in Procs |-> IdleScan]
    /\ scan_lock = [locked |-> FALSE, waiters |-> << >>]
    /\ scan_cancel_flag = [g \in {} |-> FALSE]
    /\ ScanProgress = [g \in Guilds |-> ProgressRow("absent")]
    /\ EmoticonConfig = [g \in Guilds |-> DefaultConfig(g)]
    /\ EmojiUsage = EmptyBag
    /\ EmojiFilter = {}
    /\ doneScanned = [g \in Guilds |-> {}]
    /\ perms = {}
    /\ lastQuery = NoQuery
    /\ messages = NoMessages
    /\ call \in {ParseCall(t) : t \in TokenSeqs(MaxTokens)}

\* parser.parse(query or "")
ParseQuery ==
    /\ call.step = 0
    /\ call' = [call EXCEPT !.step = 1, !.result = Parse(QueryText(call.tokens))]
    /\ UNCHANGED <<scans, scan_lock, scan_cancel_flag, ScanProgress, EmoticonConfig,
                   EmojiUsage, EmojiFilter, doneScanned, perms, lastQuery, messages>>

NextParse == ParseQuery

SpecParse == InitParse /\ [][NextParse]_vars

\* ============================================================= date filters
\* the tokens that set a date bound
DateTokens == {t \in Tokens : t.kind \in {"after:", "before:"}}

\* message_timestamp of the usage rows the date filters are tried on: the
\* created_at of the message, at the start, the middle and the end of a day
Timestamps ==
    {DateTime(2023, 12, 31, 23), DateTime(2024, 2, 1, 0), DateTime(2024, 2, 1, 12)}
    \cup {DateTime(2024, 1, day, hour) : day \in {1, 2, 3}, hour \in {0, 12, 23}}

\* the position of a datetime in time, in hours
Hours(dt) == ((dt.year * 12 + dt.month) * 31 + dt.day) * 24 + dt.hour

\* the date filters of _apply_query_filters applied to a row's message_timestamp
DateFilter(query, message_timestamp) ==
    /\ query.date_after # NoDate => Hours(message_timestamp) >= Hours(query.date_after)
    /\ query.date_before # NoDate => Hours(message_timestamp) <= Hours(query.date_before)

\* a command about to parse its query and filter one usage row by date
FilterCall(tokens, ts) ==
    [fn |-> "date_filter", tokens |-> tokens, message_timestamp |-> ts, step |-> 0,
     result |-> ParseResult, matched |-> FALSE]

InitDates ==
    /\ scans = [p \in Procs |-> IdleScan]
    /\ scan_lock = [locked |-> FALSE, waiters |-> << >>]
    /\ scan_cancel_flag = [g \in {} |-> FALSE]
    /\ ScanProgress = [g \in Guilds |-> ProgressRow("absent")]
    /\ EmoticonConfig = [g \in Guilds |-> DefaultConfig(g)]
    /\ EmojiUsage = EmptyBag
    /\ EmojiFilter = {}
    /\ doneScanned = [g \in Guilds |-> {}]
    /\ perms = {}
    /\ lastQuery = NoQuery
    /\ messages = NoMessages
    /\ call \in {FilterCall(t, ts) :
                    t \in {x \in TokenSeqs(2) : \A i \in 1..Len(x) : x[i] \in DateTokens},
                    ts \in Timestamps}

\* parser.parse(query) followed by the date part of _apply_query_filters
ApplyDateFilters ==
    /\ call.step = 0
    /\ LET parsed == Parse(QueryText(call.tokens))
       IN  call' = [call EXCEPT !.step = 1, !.result = parsed,
                                !.matched = DateFilter(parsed, call.message_timestamp)]
    /\ UNCHANGED <<scans, scan_lock, scan_cancel_flag, ScanProgress, EmoticonConfig,
                   EmojiUsage, EmojiFilter, doneScanned, perms, lastQuery, messages>>

NextDates == ApplyDateFilters

SpecDates == InitDates /\ [][NextDates]_vars

\* ================================================== scans under fair scheduling
\* the steps of invocation p after its request was received: each is the
\* return of an awaited call, which the event loop resumes once the call has
\* returned or raised
ScanStep(p) ==
    \/ CheckProgress(p) \/ StartScan(p) \/ LockGranted(p)
    \/ GetConfig(p) \/ GetOrCreate(p) \/ SaveScanning(p)
    \/ DeleteUsage(p) \/ DeleteUsageFails(p)
    \/ HistoryNext(p, {}) \/ HistoryForbidden(p, ForbiddenChannels) \/ HistoryFails(p)
    \/ SaveChannel(p) \/ SaveCancelled(p) \/ SaveCompleted(p) \/ SaveConfig(p)
    \/ SendResult(p) \/ SendResultFails(p) \/ SaveFailed(p) \/ SendFailed(p)

\* scan and stop_scan as in Spec; every awaited call of a scan eventually
\* returns or raises, and requests and stop commands arrive at will
SpecFair == Init /\ [][Next]_vars /\ \A p \in Procs : WF_vars(ScanStep(p))

\* ============================================ live events, ignored categories
\* /emoticon settings ignore with action add or remove and a category
SettingsIgnoreCategory(g, action, category) ==
    /\ EmoticonConfig' =
          [EmoticonConfig EXCEPT ![g].ignored_categories =
              IF action = "add" THEN @ \cup {category} ELSE @ \ {category}]
    /\ UNCHANGED <<scans, scan_lock, scan_cancel_flag, ScanProgress, EmojiUsage,
                   EmojiFilter, doneScanned, perms, lastQuery, messages, call>>

\* the listeners and settings commands of SpecLive, with the category of
\* channel 11 added to or removed from the ignore list at any time
NextIgnore ==
    \/ NextLive
    \/ \E action \in {"add", "remove"} : SettingsIgnoreCategory(1, action, 5)

SpecIgnore == InitLive /\ [][NextIgnore]_vars

\* ====================================================== leaderboard paginator
\* largest number of leaderboard entries and largest page size tried
MaxEntries == 10

MaxPerPage == 4

\* seq[start:end] of Python: negative indices count from the end, indices
\* beyond the ends are clamped
Slice(seq, start, end) ==
    LET n == Len(seq)
        Clamp(i) == IF i < 0 THEN (IF i + n < 0 THEN 0 ELSE i + n)
                    ELSE IF i > n THEN n ELSE i
        a == Clamp(start)
        b == Clamp(end)
    IN  IF a >= b THEN << >> ELSE SubSeq(seq, a + 1, b)

\* LeaderboardPaginatorView.__init__: (len(entries) + per_page - 1) // per_page
MaxPages(entries, per_page) == (Len(entries) + per_page - 1) \div per_page

\* mutant: the buttons stay enabled on a view of at most one page
ButtonsNeverDisabled(max_pages) == FALSE

\* __init__: "if self.max_pages <= 1" both buttons are disabled
ButtonsDisabled(max_pages) == max_pages <= 1

\* get_page_entries
GetPageEntries(entries, current_page, per_page) ==
    Slice(entries, current_page * per_page, current_page * per_page + per_page)

\* render_leaderboard: enumerate(entries, start_rank); one line per entry with
\* the rank it shows (no line for an empty page, which shows "No data found")
RenderLeaderboard(entries, start_rank) ==
    [k \in 1..Len(entries) |-> [rank |-> start_rank + k - 1, entry |-> entries[k]]]

\* get_embed: the lines of the current page
GetEmbed(entries, current_page, per_page) ==
    RenderLeaderboard(GetPageEntries(entries, current_page, per_page),
                      current_page * per_page + 1)

\* the view as constructed for n entries; entry i is the i-th of the full
\* list.  pressed and from record the last button press and the page it left
PaginatorView(n, per_page) ==
    LET entries == [i \in 1..n |-> i]
    IN  [fn |-> "paginator", entries |-> entries, per_page |-> per_page,
         current_page |-> 0, max_pages |-> MaxPages(entries, per_page),
         disabled |-> ButtonsDisabled(MaxPages(entries, per_page)),
         shown |-> GetEmbed(entries, 0, per_page),
         pressed |-> "", from |-> 0]

InitPaginator ==
    /\ scans = [p \in Procs |-> IdleScan]
    /\ scan_lock = [locked |-> FALSE, waiters |-> << >>]
    /\ scan_cancel_flag = [g \in {} |-> FALSE]
    /\ ScanProgress = [g \in Guilds |-> ProgressRow("absent")]
    /\ EmoticonConfig = [g \in Guilds |-> DefaultConfig(g)]
    /\ EmojiUsage = EmptyBag
    /\ EmojiFilter = {}
    /\ doneScanned = [g \in Guilds |-> {}]
    /\ perms = {}
    /\ lastQuery = NoQuery
    /\ messages = NoMessages
    /\ call \in {PaginatorView(n, k) : n \in 0..MaxEntries, k \in 1..MaxPerPage}

\* previous_button: a disabled button cannot be pressed
PreviousButton ==
    /\ ~call.disabled
    /\ LET page == IF call.current_page > 0 THEN call.current_page - 1
                   ELSE call.max_pages - 1
       IN  call' = [call EXCEPT !.current_page = page,
                                !.shown = GetEmbed(call.entries, page, call.per_page),
                                !.pressed = "previous", !.from = call.current_page]
    /\ UNCHANGED <<scans, scan_lock, scan_cancel_flag, ScanProgress, EmoticonConfig,
                   EmojiUsage, EmojiFilter, doneScanned, perms, lastQuery, messages>>

\* next_button
NextButton ==
    /\ ~call.disabled
    /\ LET page == IF call.current_page < call.max_pages - 1 THEN call.current_page + 1
                   ELSE 0
       IN  call' = [call EXCEPT !.current_page = page,
                                !.shown = GetEmbed(call.entries, page, call.per_page),
                                !.pressed = "next", !.from = call.current_page]
    /\ UNCHANGED <<scans, scan_lock, scan_cancel_flag, ScanProgress, EmoticonConfig,
                   EmojiUsage, EmojiFilter, doneScanned, perms, lastQuery, messages>>

NextPaginator == PreviousButton \/ NextButton

SpecPaginator == InitPaginator /\ [][NextPaginator]_vars

\* ================================================================ properties
\* p leaves scan() in this step, from inside the lock
Exits(p) == scans[p].pc \in Holding /\ scans'[p].pc = "done"

\* positions of a request that has reset the flag and entered or queued on the lock
Started == Accepted \ {"send_loading"}

Terminal == {"completed", "cancelled", "failed"}

\* C1: at any time at most one invocation per guild is executing the scan body
\* (from ScanProgress initialised to "scanning" until the routine exits).
C1_OneScanBodyPerGuild ==
    \A g \in Guilds :
        Cardinality({p \in Procs : scans[p].guild = g /\ scans[p].pc \in Body}) <= 1

\* a second request of the same guild queues on the lock while the first scans
C1_Witness ==
    \E p, q \in Procs :
        /\ p # q /\ scans[p].guild = scans[q].guild
        /\ scans[p].pc \in Body /\ scans[q].pc = "wait_lock"

\* C2: a scan request arriving while an earlier request of the same guild is
\* accepted and has not exited only reports progress: it never resets the
\* cancel flag nor starts or queues a second scan.
C2_OverlappingRequestOnlyReports ==
    \A p \in Procs : scans[p].overlap => scans[p].pc \notin Started

\* C3: when a stop command set the guild's cancel flag while its scan was
\* running and the scan's cancel check saw the flag, the status persisted when
\* the routine exits is "cancelled".
C3_StoppedScanEndsCancelled ==
    [][\A p \in Procs :
          (Exits(p) /\ scans[p].stopped /\ scans[p].cancelled)
             => ScanProgress'[scans[p].guild].status = "cancelled"]_vars

C5_RaisedScanEndsFailed ==
    [][\A p \in Procs :
          (Exits(p) /\ scans[p].pc \in Body) =>
             /\ ScanProgress'[scans[p].guild].status # "scanning"
             /\ scans[p].raised # "" =>
                   /\ ScanProgress'[scans[p].guild].status = "failed"
                   /\ ScanProgress'[scans[p].guild].last_error = scans[p].raised]_vars

\* the status transitions of the ScanProgress state machine
AllowedTransition(a, b) ==
    \/ a = b
    \/ a = "absent" /\ b = "idle"
    \/ a \in {"idle"} \cup Terminal /\ b = "scanning"
    \/ a = "scanning" /\ b \in Terminal

\* C6: the persisted status moves only from idle or a terminal status to
\* "scanning" and from "scanning" to one terminal status; a terminal status
\* is never overwritten by another terminal status.
C6_StatusTransitions ==
    [][\A g \in Guilds :
          AllowedTransition(ScanProgress[g].status, ScanProgress'[g].status)]_vars

\* C7: no step of a dry-run scan, in append or rescan mode, deletes or creates
\* a usage record.
C7_DryRunKeepsUsage ==
    [][\A p \in Procs :
          (scans[p].pc \in Body /\ scans[p].dry_run /\ scans'[p] # scans[p])
             => EmojiUsage' = EmojiUsage]_vars

\* a dry-run rescan has counted emojis of a message while the guild has records
C7_Witness ==
    \E p \in Procs :
        /\ scans[p].pc \in Body /\ scans[p].dry_run /\ scans[p].sync_mode = "rescan"
        /\ scans[p].progress.emojis_found > 0
        /\ \E r \in DOMAIN EmojiUsage : r.guild_id = scans[p].guild

\* C8: an append scan does not process again a message that an earlier
\* completed non-dry-run scan of the guild has processed.
C8_AppendResumesAfterWatermark ==
    \A p \in Procs :
        (scans[p].pc \in Body /\ scans[p].sync_mode = "append")
            => scans[p].processed \cap doneScanned[scans[p].guild] = {}

\* C9: when the cancel check ends the scan, scanned_channels is the number of
\* channels whose history was consumed to its end.
C9_CancelledCountsConsumedChannels ==
    \A p \in Procs :
        scans[p].cancelled
            => scans[p].progress.scanned_channels = scans[p].consumed

\* ---------------------------------------------------------------- queries
\* channels the viewer cannot view now
Hidden(viewer, g, granted) ==
    {ch \in {r.channel_id : r \in QueryRows} :
        ~(ch \in GuildChannels(g) /\ ViewChannel(viewer, g, ch, granted))}

\* the rows whose multiplicity differs between two tables
ChangedRows(a, b) ==
    {r \in (DOMAIN a) \cup (DOMAIN b) : Mult(a, r) # Mult(b, r)}

\* C10: for a viewer without admin override, a step that adds or removes usage
\* rows only in channels the viewer cannot view does not change the reply of
\* the viewer's aggregation command, whatever channels, dataset or exclusions
\* the command names.
C10_HiddenRowsDoNotShow ==
    [][(/\ lastQuery.viewer # 0
        /\ ~HasAdminOverride(lastQuery.viewer, 1, EmoticonConfig[1])
        /\ ChangedRows(EmojiUsage, EmojiUsage') # {}
        /\ \A r \in ChangedRows(EmojiUsage, EmojiUsage') :
              r.channel_id \in Hidden(lastQuery.viewer, 1, perms))
       => RunCommand(lastQuery.command, lastQuery.query, 1, lastQuery.viewer,
                     EmoticonConfig[1], perms, EmojiUsage')
          = RunCommand(lastQuery.command, lastQuery.query, 1, lastQuery.viewer,
                       EmoticonConfig[1], perms, EmojiUsage)]_vars

\* an ordinary member ran a command naming a channel hidden from them; the
\* table holds a row of that channel and a row the member can see, and the
\* reply counts the visible row only
C10_Witness ==
    /\ lastQuery.viewer = 1
    /\ lastQuery.command.name = "leaderboard" /\ lastQuery.command.dataset = ""
    /\ lastQuery.query.channels = <<11, 12>>
    /\ 12 \notin perms /\ 11 \in perms
    /\ DOMAIN EmojiUsage = {UsageRow(1, 11, 1, 1, Emo("a", 2), FALSE, 2),
                            UsageRow(1, 12, 1, 3, Emo("a", 1), FALSE, 1)}
    /\ lastQuery.result = RunCommand(lastQuery.command, lastQuery.query, 1, 1,
                                     EmoticonConfig[1], perms, EmojiUsage)
    /\ lastQuery.result.total = 2

\* C11: for a viewer without admin override, get_viewable_channels returns
\* exactly the guild channels on which the viewer holds view-channel.
C11_ViewableChannelsExact ==
    \A viewer \in Viewers :
        ~HasAdminOverride(viewer, 1, EmoticonConfig[1])
            => GetViewableChannels(viewer, 1, EmoticonConfig[1], perms)
               = {ch \in GuildChannels(1) : ViewChannel(viewer, 1, ch, perms)}

\* C12: for the guild owner, a member with the administrator permission and a
\* member holding a configured admin-override role, get_viewable_channels
\* returns every channel of the guild and filter_channels returns its input
\* unchanged, whatever the per-channel permissions are.
C12_OverrideSeesEveryChannel ==
    \A viewer \in Viewers :
        (\/ viewer = OwnerId(1)
         \/ Administrator(viewer)
         \/ RoleIds(viewer) \cap EmoticonConfig[1].admin_override_roles # {})
        => /\ GetViewableChannels(viewer, 1, EmoticonConfig[1], perms) = GuildChannels(1)
           /\ \A q \in Queries :
                 FilterChannels(viewer, 1, EmoticonConfig[1], q.channels, perms)
                    = q.channels

\* the holder of the override role, granted no channel, ran the leaderboard
\* without a channel filter and the reply counts rows of channels 11 and 12
C12_Witness ==
    /\ lastQuery.viewer = 9 /\ perms = {}
    /\ lastQuery.command.name = "leaderboard" /\ lastQuery.command.dataset = ""
    /\ lastQuery.query.channels = << >> /\ lastQuery.query.excluded_channels = << >>
    /\ DOMAIN EmojiUsage = {UsageRow(1, 11, 1, 1, Emo("a", 2), FALSE, 2),
                            UsageRow(1, 12, 1, 3, Emo("a", 1), FALSE, 1)}
    /\ lastQuery.result.total = 3

\* whether row r meets every condition of the Q object f other than user_id > 0
InScope(r, f) ==
    /\ r.guild_id = f.guild_id
    /\ r.channel_id \in f.channel_in
    /\ r.channel_id \notin f.channel_not_in
    /\ f.user_in # {} => r.user_id \in f.user_in
    /\ r.user_id \notin f.user_not_in
    /\ f.emojis # {} => \E n \in f.emojis : IContains(r.emoji_name, n)

\* the Q object of the command just run (the primed lastQuery)
QueryFilterOf(c, q, viewer) ==
    ApplyQueryFilters(IF c.name = "leaderboard" /\ c.dataset # ""
                      THEN [q EXCEPT !.channels = Dataset(1, c.dataset)] ELSE q,
                      1, viewer, EmoticonConfig[1], perms)

\* this step runs an aggregation command
CommandRuns == lastQuery.viewer = 0 /\ lastQuery'.viewer # 0

\* C17: usage rows whose user id is 0 count in the total and the entries of the
\* emoji leaderboard and in the total of an emoji's info; only the per-user
\* leaderboard leaves them out.
C17_SentinelRowsCountForEmojis ==
    [][CommandRuns =>
         LET c == lastQuery'.command
             f == QueryFilterOf(c, lastQuery'.query, lastQuery'.viewer)
             S == {r \in DOMAIN EmojiUsage : InScope(r, f)}
             E == {r \in S : r.emoji_name = c.emoji}
         IN /\ (c.name = "leaderboard" /\ c.type = "global"
                    /\ lastQuery'.result.reply = "leaderboard")
                 => /\ lastQuery'.result.total = SumRows(EmojiUsage, S)
                    /\ lastQuery'.result.entries = SumByEmoji(EmojiUsage, S)
            /\ (c.name = "leaderboard" /\ c.type = "user"
                    /\ lastQuery'.result.reply = "leaderboard")
                 => lastQuery'.result.entries
                      = SumByUser(EmojiUsage, {r \in S : r.user_id # 0})
            /\ c.name = "info"
                 => IF SumRows(EmojiUsage, E) = 0
                    THEN lastQuery'.result.reply = "No Data"
                    ELSE /\ lastQuery'.result.reply = "info"
                         /\ lastQuery'.result.total = SumRows(EmojiUsage, E)]_vars

\* C18: the server rank info reports for an emoji is its 1-based position in
\* the emoji leaderboard under the same filters, ordered by descending sum of
\* the records' counts (not by number of records). The table keeps no
\* insertion order, so among emojis with equal sums any position is accepted.
C18_RankBySummedCount ==
    [][(CommandRuns /\ lastQuery'.result.reply = "info") =>
         LET c == lastQuery'.command
             f == QueryFilterOf(c, lastQuery'.query, lastQuery'.viewer)
             sums == SumByEmoji(EmojiUsage, Filter(EmojiUsage, f))
             above == {n \in DOMAIN sums : sums[n] > sums[c.emoji]}
             tied == {n \in DOMAIN sums : sums[n] = sums[c.emoji]}
         IN lastQuery'.rank \in
               (Cardinality(above) + 1)..(Cardinality(above) + Cardinality(tied))]_vars

\* ----------------------------------------------------------------- settings
\* whether the tier sets field k to a value other than None
Sets(tier, k) == k \in DOMAIN tier /\ tier[k] # "None"

\* C19: merge_settings returns all four display fields populated; each field
\* is the value of the highest tier (runtime, then command, then global) that
\* sets it to something other than None, and the hard-coded default when no
\* tier does; a None in a higher tier never clears a lower tier's value.
C19_MergePrecedence ==
    call.step >= 1 =>
        /\ call.result.show_ids \in {"True", "False"}
        /\ call.result.show_percentages \in {"True", "False"}
        /\ call.result.compact_mode \in {"True", "False"}
        /\ call.result.tie_grouping \in {"group", "list_all"}
        /\ \A k \in RenderFields :
              AsDict(call.result)[k] =
                 IF Sets(call.r, k) THEN call.r[k]
                 ELSE IF Sets(call.c, k) THEN call.c[k]
                 ELSE IF Sets(call.g, k) THEN call.g[k]
                 ELSE CASE k = "show_ids" -> "False"
                        [] k = "show_percentages" -> "True"
                        [] k = "compact_mode" -> "False"
                        [] OTHER -> "group"

\* the command row leaves show_ids at None over a global True, the flags set
\* compact_mode, and the merged value keeps the global show_ids
C19_Witness ==
    /\ call.step = 1
    /\ call.g # NoSettings /\ call.c # NoSettings
    /\ call.g["show_ids"] = "True" /\ call.c["show_ids"] = "None"
    /\ call.c["show_percentages"] = "False" /\ call.g["show_percentages"] = "True"
    /\ DOMAIN call.r = {"compact_mode"} /\ call.r["compact_mode"] = "True"
    /\ call.result.show_ids = "True" /\ call.result.show_percentages = "False"
    /\ call.result.compact_mode = "True" /\ call.result.tie_grouping = "group"

HasEntry(filters, g, emoji, type) ==
    \E f \in filters :
        /\ f.guild_id = g /\ f.filter_type = type
        /\ IF emoji.emoji_id # 0 THEN f.emoji_id = emoji.emoji_id
           ELSE f.emoji_id = 0 /\ f.emoji_name = emoji.emoji_name

\* C15: for an emoji the external gate lets through, whitelist mode accepts it
\* iff an EmojiFilter row exists for exactly (guild, emoji identity, whitelist)
\* and blacklist mode accepts it iff no row exists for (guild, emoji identity,
\* blacklist); a row for another custom emoji of the same name does not count.
C15_FilterByEmojiIdentity ==
    (/\ call.step = 1
     /\ ~(call.emoji.is_external /\ ~EmoticonConfig[1].allow_external_emojis))
    => /\ EmoticonConfig[1].tracking_mode = "whitelist"
            => (call.result <=> HasEntry(EmojiFilter, 1, call.emoji, "whitelist"))
       /\ EmoticonConfig[1].tracking_mode = "blacklist"
            => (call.result <=> ~HasEntry(EmojiFilter, 1, call.emoji, "blacklist"))

\* -------------------------------------------------------------- live events
\* the rows of message m that are (or are not) reaction rows, as a bag
RowsOf(bag, m, is_reaction) ==
    [r \in {x \in DOMAIN bag : x.guild_id = 1 /\ x.message_id = m
                                   /\ x.is_reaction = is_reaction} |-> bag[r]]

\* the rows of every other message and guild, as a bag
RowsBeside(bag, m) ==
    [r \in {x \in DOMAIN bag : ~(x.guild_id = 1 /\ x.message_id = m)} |-> bag[r]]

\* one row per emoji of content c that the tracking policy accepts, with the
\* emoji's occurrence count
Produced(m, c) ==
    [r \in {[guild_id |-> 1, channel_id |-> ChannelOf(m), user_id |-> AuthorOf(m),
             message_id |-> m, emoji_id |-> e.emoji_id, emoji_name |-> e.emoji_name,
             is_external |-> e.is_external, is_reaction |-> FALSE, count |-> e.count] :
                e \in {x \in c : ShouldTrack(x, EmoticonConfig[1], EmojiFilter)}} |-> 1]

\* what C13 says of an edit of message m to content c
EditReplaces(m, c) ==
    /\ RowsOf(EmojiUsage', m, FALSE) = Produced(m, c)
    /\ RowsOf(EmojiUsage', m, TRUE) = RowsOf(EmojiUsage, m, TRUE)
    /\ RowsBeside(EmojiUsage', m) = RowsBeside(EmojiUsage, m)

\* C13 as stated: when track-edits is on, after a message-edit event the
\* non-reaction rows of the message are exactly those produced from the edited
\* content under the tracking policy, and the message's reaction rows and the
\* rows of every other message are unchanged.
C13_EditReplacesContentRows ==
    [][\A m \in LiveMessageIds, c \in Contents :
          (OnMessageEdit(m, c) /\ EmoticonConfig[1].track_edits)
             => EditReplaces(m, c)]_vars

\* C13 as amended: the same, for a message whose author is not a bot and whose
\* channel is not in the ignored channels.
C13_EditOfTrackedMessageReplacesContentRows ==
    [][\A m \in LiveMessageIds, c \in Contents :
          (/\ OnMessageEdit(m, c) /\ EmoticonConfig[1].track_edits
           /\ AuthorOf(m) \notin BotUsers
           /\ ChannelOf(m) \notin EmoticonConfig[1].ignored_channels)
             => EditReplaces(m, c)]_vars

\* message 1 was edited from two 'a' to one 'a' and an external emoji while
\* external emojis are not tracked: its content row is the one of the new
\* content, its reaction row and the row of message 2 are still there
C13_Witness ==
    /\ messages[1].status = "edited" /\ messages[2].status = "created"
    /\ messages[1].content = {Emo("a", 1), CustomEmoji(103, "y", TRUE, 1)}
    /\ EmoticonConfig[1].track_edits /\ ~EmoticonConfig[1].allow_external_emojis
    /\ EmoticonConfig[1].ignored_channels = {}
    /\ EmojiUsage = CreateAll(EmptyBag,
                        {UsageRow(1, 11, 1, 1, Emo("a", 1), FALSE, 1),
                         UsageRow(1, 11, Reactor, 1, ReactionEmoji, TRUE, 1),
                         UsageRow(1, 12, 2, 2, Emo("a", 2), FALSE, 2)})

\* C14: on a message-delete event the store is unchanged when retain-deleted
\* is on; when it is off no row of that (guild, message) remains and the rows
\* of every other message are unchanged.
C14_DeletePurgesUnlessRetained ==
    [][\A m \in LiveMessageIds :
          OnMessageDelete(1, m) =>
             IF EmoticonConfig[1].retain_deleted THEN EmojiUsage' = EmojiUsage
             ELSE /\ \A r \in DOMAIN EmojiUsage' :
                        ~(r.guild_id = 1 /\ r.message_id = m)
                  /\ RowsBeside(EmojiUsage', m) = RowsBeside(EmojiUsage, m)]_vars

\* message 1 was deleted with retain-deleted off and none of its rows is
\* stored, while the row of message 2 is
C14_Witness ==
    /\ messages[1].status = "deleted" /\ messages[1].content = {}
    /\ messages[2].status = "created"
    /\ ~EmoticonConfig[1].retain_deleted
    /\ EmojiUsage = CreateAll(EmptyBag, {UsageRow(1, 12, 2, 2, Emo("a", 2), FALSE, 2)})

\* ----------------------------------------------------------- external emojis
\* C16: _should_track_emoji is false for every external emoji when
\* allow-external is disabled, in each tracking mode and whatever EmojiFilter
\* rows exist; and no step creates a usage row with is_external true for a
\* guild whose allow-external is disabled.
C16_NoExternalRowWhileDisabled ==
    [][/\ \A e \in GateEmojis, mode \in TrackingModes, filters \in SUBSET FilterEntries :
             e.is_external =>
                ~ShouldTrack(e, [DefaultConfig(1) EXCEPT !.tracking_mode = mode,
                                                         !.allow_external_emojis = FALSE],
                             filters)
       /\ \A r \in DOMAIN EmojiUsage' :
             (r.is_external /\ Mult(EmojiUsage', r) > Mult(EmojiUsage, r))
                => EmoticonConfig[r.guild_id].allow_external_emojis]_vars

\* ----------------------------------------------------------------- extractor
\* the identity of an extracted emoji: the numeric id of a custom emoji, the
\* character of a unicode emoji
Identity(e) ==
    [emoji_id |-> e.emoji_id, char |-> IF e.emoji_id = None THEN e.emoji_name ELSE ""]

\* the emojis written in a text, one per occurrence: every tag, and every
\* emoji character outside a tag
RECURSIVE Occurrences(_)

Occurrences(content) ==
    IF content = << >> THEN << >>
    ELSE LET p == Head(content)
         IN  (IF p.tags # << >>
              THEN [i \in 1..Len(p.tags) |-> [emoji_id |-> p.tags[i].id, char |-> ""]]
              ELSE [i \in 1..Len(p.chars) |-> [emoji_id |-> None, char |-> p.chars[i]]])
             \o Occurrences(Tail(content))

OccurrencesOf(content, identity) ==
    Cardinality({i \in 1..Len(Occurrences(content)) : Occurrences(content)[i] = identity})

\* C21: for any message text, extraction returns at most one tuple per emoji
\* identity, each tuple's count is the number of occurrences of its identity in
\* the text, every identity that occurs has a tuple, and every tuple has a
\* numeric id or no id.
C21_OneTuplePerIdentity ==
    call.fn = "extract" /\ call.step = 1 =>
        /\ \A i, j \in 1..Len(call.result) :
              Identity(call.result[i]) = Identity(call.result[j]) => i = j
        /\ \A i \in 1..Len(call.result) :
              /\ call.result[i].count = OccurrencesOf(call.content, Identity(call.result[i]))
              /\ call.result[i].emoji_id = None \/ call.result[i].emoji_id >= 0
        /\ \A k \in 1..Len(Occurrences(call.content)) :
              \E i \in 1..Len(call.result) :
                 Identity(call.result[i]) = Occurrences(call.content)[k]

\* -------------------------------------------------------------- query parser
\* the references or values of the tokens of one kind in a token sequence
RefsOf(tokens, kind) == {tokens[i].ref : i \in {j \in 1..Len(tokens) : tokens[j].kind = kind}}

\* the ids the channel references name: each reference taken whole, as a
\* decimal id or as the name of a guild channel
ChannelIds(refs) ==
    {ResolveChannel(ref).id : ref \in {x \in refs : ~ResolveChannel(x).raises
                                                     /\ Truthy(ResolveChannel(x).id)}}

UserIds(refs) ==
    {ResolveUser(ref).id : ref \in {x \in refs : ~ResolveUser(x).raises
                                                  /\ Truthy(ResolveUser(x).id)}}

\* the dates the date values name
Dates(refs) ==
    {Strptime(ref).value : ref \in {x \in refs : DateShape(x, 1) /\ ~Strptime(x).raises}}

\* the display flags the flag tokens ask for, as (key, value) pairs
FlagsAsked(refs) ==
    {<<FLAG_PATTERNS[n].key, FLAG_PATTERNS[n].value>> :
        n \in {k \in 1..Len(FLAG_PATTERNS) :
                  \E ref \in refs : <<"-", "-">> \o ref = FLAG_PATTERNS[k].flag}}

\* C22: parsing routes every recognised token to its own field and to no
\* other: each field of the result holds what the tokens of its kind name, and
\* nothing else (a date bound holds the date of the one token that names it).
C22_TokensRoutedToOwnField ==
    call.fn = "parse" /\ call.step = 1 /\ ~call.result.raised =>
        LET r == call.result
            t == call.tokens
        IN  /\ Range(r.channels) = ChannelIds(RefsOf(t, "#"))
            /\ Range(r.excluded_channels) = ChannelIds(RefsOf(t, "-#"))
            /\ Range(r.users) = UserIds(RefsOf(t, "@"))
            /\ Range(r.excluded_users) = UserIds(RefsOf(t, "-@"))
            /\ Range(r.roles) = RefsOf(t, "role:")
            /\ Range(r.emojis) = RefsOf(t, "emoji:")
            /\ r.date_after # NoDate => r.date_after \in Dates(RefsOf(t, "after:"))
            /\ r.date_before # NoDate => r.date_before \in Dates(RefsOf(t, "before:"))
            /\ \A i \in 1..Len(t) :
                  /\ t[i].kind = "after:" /\ RefsOf(t, "after:") = {t[i].ref}
                        => {r.date_after} \ {NoDate} = Dates({t[i].ref})
                  /\ t[i].kind = "before:" /\ RefsOf(t, "before:") = {t[i].ref}
                        => {r.date_before} \ {NoDate} = Dates({t[i].ref})
            /\ \A k \in DOMAIN r.flags : <<k, r.flags[k]>> \in FlagsAsked(RefsOf(t, "--"))
            /\ \A f \in FlagsAsked(RefsOf(t, "--")) : f[1] \in DOMAIN r.flags

\* the orders a sequence of n tokens can be written in
Orders(n) == {f \in [1..n -> 1..n] : \A i, j \in 1..n : f[i] = f[j] => i = j}

\* the filter sets, date bounds and display flags of a parse result
Parsed(r) ==
    [raised |-> r.raised,
     channels |-> Range(r.channels), excluded_channels |-> Range(r.excluded_channels),
     users |-> Range(r.users), excluded_users |-> Range(r.excluded_users),
     roles |-> Range(r.roles), emojis |-> Range(r.emojis),
     date_after |-> r.date_after, date_before |-> r.date_before, flags |-> r.flags]

\* C23: the query grammar is order-independent: every permutation of the
\* tokens of a query parses to the same filter sets, the same date bounds and
\* the same display flags.
C23_OrderIndependent ==
    call.fn = "parse" /\ call.step = 1 =>
        \A f \in Orders(Len(call.tokens)) :
           Parsed(Parse(QueryText([i \in 1..Len(call.tokens) |-> call.tokens[f[i]]])))
              = Parsed(call.result)

\* a token whose reference names no channel or no user, or whose date is not
\* a calendar date
Failing(token) ==
    \/ token.kind \in {"#", "-#"}
          /\ (ResolveChannel(token.ref).raises \/ ~Truthy(ResolveChannel(token.ref).id))
    \/ token.kind \in {"@", "-@"}
          /\ (ResolveUser(token.ref).raises \/ ~Truthy(ResolveUser(token.ref).id))
    \/ token.kind \in {"after:", "before:"} /\ Dates({token.ref}) = {}

\* the tokens of a sequence that are not failing, in their order
RECURSIVE Passing(_)

Passing(tokens) ==
    IF tokens = << >> THEN << >>
    ELSE IF Failing(Head(tokens)) THEN Passing(Tail(tokens))
    ELSE <<Head(tokens)>> \o Passing(Tail(tokens))

\* C24: parse never raises; each unresolvable channel or user reference and
\* each invalid date is recorded as one warning, and the other tokens of the
\* query are parsed into their fields as they are without the failing tokens.
C24_FailuresBecomeWarnings ==
    call.fn = "parse" /\ call.step = 1 =>
        /\ ~call.result.raised
        /\ Len(call.result.errors)
              = Cardinality({i \in 1..Len(call.tokens) : Failing(call.tokens[i])})
        /\ Parsed(call.result) = Parsed(Parse(QueryText(Passing(call.tokens))))

\* ------------------------------------------------------------- date filters
\* the calendar date of a datetime
DateOf(dt) == DateTime(dt.year, dt.month, dt.day, 0)

\* the calendar date after a date
DayAfter(d) ==
    IF d.day < DaysIn(d.year, d.month) THEN DateTime(d.year, d.month, d.day + 1, 0)
    ELSE IF d.month < 12 THEN DateTime(d.year, d.month + 1, 1, 0)
    ELSE DateTime(d.year + 1, 1, 1, 0)

\* C25: date bounds include the named calendar date: a usage row whose message
\* timestamp falls at any time on date D is matched by 'before:D' and by
\* 'after:D', and a row dated one day after D is not matched by 'before:D'.
C25_DateBoundsInclusive ==
    call.fn = "date_filter" /\ call.step = 1 /\ Len(call.tokens) = 1 =>
        \A D \in Dates({call.tokens[1].ref}) :
           /\ DateOf(call.message_timestamp) = D => call.matched
           /\ (call.tokens[1].kind = "before:"
                  /\ DateOf(call.message_timestamp) = DayAfter(D)) => ~call.matched

\* ------------------------------------------------------------- cancellation
\* C26: after the cancel flag of a running scan is set, the scan starts no
\* further message and no further channel: no step of it processes a message,
\* creates a usage row or enters the history of a channel.
C26_NoMessageAfterCancel ==
    [][\A p \in Procs :
          scans[p].stopped =>
             /\ scans'[p].processed \subseteq scans[p].processed
             /\ scans'[p].progress.scanned_messages <= scans[p].progress.scanned_messages
             /\ (scans'[p].pc = "history" => scans[p].pc = "history" /\ scans'[p].ci = scans[p].ci)
             /\ (scans'[p] # scans[p] =>
                    \A r \in DOMAIN EmojiUsage' : Mult(EmojiUsage', r) <= Mult(EmojiUsage, r))]_vars

\* ------------------------------------------------------- forbidden channels
\* the messages of the i-th target channel of scan s that are not from a bot
Scannable(s, i) ==
    LET msgs == HistoryAfter(s.channels[i], s.sync_mode, s.config)
    IN  {msgs[k].id : k \in {j \in 1..Len(msgs) : msgs[j].author \notin BotUsers}}

\* C27: when access to a target channel is forbidden at any point of its
\* history iteration, the scan leaves that channel and goes on with the next:
\* nothing is raised, and absent cancellation a scan that reaches its end has
\* processed every message of every channel but the forbidden ones (the
\* channels it did not count) and ends "completed"; a forbidden reaction-user enumeration leaves out the rows of
\* that reaction only: the rows of the message content are created and the
\* scan goes on with the next message.
C27_ForbiddenSkipsChannelOnly ==
    [][\A p \in Procs :
          LET s == scans[p]
              t == scans'[p]
          IN  /\ HistoryForbidden(p, RefusedChannels) =>
                    /\ t.raised = s.raised
                    /\ t.progress.status # "failed"
                    /\ IF CancelRequested(scan_cancel_flag, s.guild)
                       THEN t.pc = "save_cancelled"
                       ELSE IF s.ci < Len(s.channels)
                       THEN t.pc = "history" /\ t.ci = s.ci + 1 /\ t.mi = 1
                       ELSE t.pc = "save_completed" /\ t.progress.status = "completed"
              /\ (s.pc = "save_completed" /\ ~s.stopped) =>
                    /\ s.progress.status = "completed"
                    /\ Cardinality({i \in 1..Len(s.channels) :
                                       ~(Scannable(s, i) \subseteq s.processed)})
                          <= Len(s.channels) - s.progress.scanned_channels
              /\ (HistoryNext(p, RefusedReactions) /\ t.processed # s.processed /\ ~s.dry_run) =>
                    LET ch == s.channels[s.ci]
                        m == HistoryAfter(ch, s.sync_mode, s.config)[s.mi]
                    IN  /\ \A r \in ContentRows(s.guild, ch, m, s.config, EmojiFilter) :
                              Mult(EmojiUsage', r) = Mult(EmojiUsage, r) + 1
                        /\ t.pc = "history" /\ t.mi = s.mi + 1 /\ t.raised = s.raised]_vars

\* a non-dry scan of guild 1 at its end: the reaction users of message 1 were
\* forbidden (its content row is stored, no reaction row is), channel 11 was
\* then forbidden and left uncounted, and channel 12 was processed after it
C27_Witness ==
    \E p \in Procs :
        /\ scans[p].pc = "save_completed" /\ ~scans[p].dry_run /\ ~scans[p].stopped
        /\ scans[p].sync_mode = "rescan"
        /\ scans[p].processed = {1, 3}
        /\ scans[p].progress.scanned_channels = 1
        /\ scans[p].progress.status = "completed"
        /\ DOMAIN EmojiUsage = {UsageRow(1, 11, 1, 1, Emo("a", 2), FALSE, 2),
                                UsageRow(1, 12, 2, 3, Emo("b", 1), FALSE, 1)}

\* C28: a settings command that changed a field of the guild's configuration
\* row while a scan of the guild was running is not undone by the scan: the
\* scan's config.save() changes last_scan_timestamp and leaves every other
\* field of the row with the value it holds at that moment
C28_ScanKeepsSettingsWritten ==
    [][\A p \in Procs :
          SaveConfig(p) =>
             LET g == scans[p].guild
             IN  EmoticonConfig'[g] =
                    [EmoticonConfig[g] EXCEPT
                        !.last_scan_timestamp = EmoticonConfig'[g].last_scan_timestamp]]_vars

\* the addressable key of a usage record
UsageKey(r) == <<r.guild_id, r.message_id, r.user_id, r.emoji_id, r.emoji_name, r.is_reaction>>

\* C29: after any sequence of live ingestion events and scans in either sync
\* mode no two usage records share the same (guild, message, user, emoji
\* identity, is-reaction) key
C29_UsageKeyUnique ==
    /\ \A r \in DOMAIN EmojiUsage : EmojiUsage[r] = 1
    /\ \A r1, r2 \in DOMAIN EmojiUsage : UsageKey(r1) = UsageKey(r2) => r1 = r2

\* C30: the scan lock is scoped to a guild: a scan request that enters the
\* lock while no other request of its own guild holds the lock or waits for it
\* acquires the lock at once and goes on towards status "scanning", whatever
\* scans of other guilds are running
C30_LockScopedToGuild ==
    [][\A p \in Procs :
          (/\ StartScan(p)
           /\ ~\E q \in Procs \ {p} :
                  /\ scans[q].guild = scans[p].guild
                  /\ scans[q].pc \in Holding \cup {"wait_lock"})
          => scans'[p].pc = "get_config"]_vars

\* C31: once a stop command has set the cancel flag of guild g while a scan of
\* g holds the lock, the flag stays set for as long as that scan holds the
\* lock: no step of any request, stop command or other scan resets it
C31_CancelFlagStaysSet ==
    [][\A g \in Guilds :
          (/\ CancelRequested(scan_cancel_flag, g)
           /\ \E p \in Procs : /\ scans[p].guild = g /\ scans[p].pc \in Holding
                               /\ scans'[p].guild = g /\ scans'[p].pc \in Holding)
          => CancelRequested(scan_cancel_flag', g)]_vars

\* C32: whenever a scan of guild g is executing its scan body, a stop command
\* for g sets the cancel flag of g and is not answered "no active scan": the
\* test of stop_scan finds the scan in every such state (the refusal changes
\* no state, so the property is stated on the states in which stop can run)
C32_StopReachesRunningScan ==
    \A p \in Procs :
        scans[p].pc \in Body =>
           ~NoActiveScan(scan_lock, scan_cancel_flag, scans[p].guild)

\* C33: with every awaited call eventually returning or raising, every scan
\* that acquires the lock eventually exits, at its exit a terminal status
\* ("completed", "cancelled" or "failed") is persisted for its guild and the
\* lock is released, and a scan queued on the lock eventually acquires it
C33_ScanTerminates ==
    /\ \A p \in Procs : (scans[p].pc \in Holding) ~> (scans[p].pc = "done")
    /\ \A p \in Procs : (scans[p].pc = "wait_lock") ~> (scans[p].pc \in Holding)
    /\ [][\A p \in Procs :
             Exits(p) => /\ ScanProgress'[scans[p].guild].status \in Terminal
                         /\ ~scan_lock'.locked]_vars

\* C34: a stop command issued in guild g changes no state other than the
\* cancel-flag entry of g: the flags of the other guilds, their scans, the
\* lock, ScanProgress, the configuration and the usage store keep their
\* values, and with the lock free nothing changes at all
C34_StopTouchesOwnFlagOnly ==
    [][\A g \in Guilds :
          StopScan(g) =>
             /\ DOMAIN scan_cancel_flag' = DOMAIN scan_cancel_flag
             /\ \A h \in DOMAIN scan_cancel_flag :
                   h # g => scan_cancel_flag'[h] = scan_cancel_flag[h]
             /\ \A p \in Procs : scans[p].guild # g => scans'[p] = scans[p]
             /\ \A p \in Procs : scans'[p].pc = scans[p].pc
             /\ scan_lock' = scan_lock
             /\ ScanProgress' = ScanProgress
             /\ EmoticonConfig' = EmoticonConfig
             /\ EmojiUsage' = EmojiUsage
             /\ ~scan_lock.locked => scan_cancel_flag' = scan_cancel_flag]_vars

\* a stop command of guild 1, whose request waits on the lock, has set the
\* flag of guild 1 while the scan of guild 2 runs on, its own flag unset
C34_Witness ==
    \E p, q \in Procs :
        /\ scans[p].guild = 1 /\ scans[p].pc = "wait_lock"
        /\ scans[q].guild = 2 /\ scans[q].pc = "history" /\ ~scans[q].stopped
        /\ CancelRequested(scan_cancel_flag, 1)
        /\ 2 \in DOMAIN scan_cancel_flag /\ ~scan_cancel_flag[2]

\* C35: whenever the persisted ScanProgress status of a guild is "completed",
\* its last_error is empty
C35_CompletedHasNoError ==
    \A g \in Guilds :
        ScanProgress[g].status = "completed" => ScanProgress[g].last_error = ""

\* sum of the occurrence counts of the usage records in the store
UsageTotal(bag) == SumCount({[count |-> r.count * bag[r], row |-> r] : r \in DOMAIN bag})

GuildMessages(g) ==
    UNION { {<<TextChannels(g)[i], History(TextChannels(g)[i])[j]>> :
                j \in 1..Len(History(TextChannels(g)[i]))} :
            i \in 1..Len(TextChannels(g)) }

RECURSIVE ReportedFor(_, _, _, _, _)
\* the emojis_found a scan reports for the set S of messages it processed
ReportedFor(g, config, filters, dry_run, S) ==
    IF S = {} THEN 0
    ELSE LET x == CHOOSE y \in S : TRUE
         IN EmojisFound(g, x[1], x[2], config, filters, dry_run, {})
            + ReportedFor(g, config, filters, dry_run, S \ {x})

\* C37: for the same histories, reactions and configuration a dry run reports
\* the same final scanned_messages and emojis_found as a scan that is not a
\* dry run reports for the messages it processed
C37_DryRunReportsSameCounts ==
    \A p \in Procs :
        (scans[p].pc = "save_completed" /\ scans[p].dry_run) =>
            LET s == scans[p]
                S == {x \in GuildMessages(s.guild) : x[2].id \in s.processed}
            IN  /\ s.progress.scanned_messages = Cardinality(S)
                /\ s.progress.emojis_found =
                      ReportedFor(s.guild, s.config, EmojiFilter, FALSE, S)

\* C38: no live-ingestion handler creates a usage record for a message whose
\* channel is in the guild's ignored-channel set or whose channel's category
\* is in the ignored-category set, and none creates a record whose user is a
\* bot
C38_NoRecordForIgnoredOrBot ==
    [][\A r \in DOMAIN EmojiUsage' :
          Mult(EmojiUsage', r) > Mult(EmojiUsage, r) =>
             /\ r.channel_id \notin EmoticonConfig[r.guild_id].ignored_channels
             /\ ~CategoryIgnored(r.channel_id, EmoticonConfig[r.guild_id])
             /\ r.user_id \notin BotUsers]_vars

\* C39: a scan that is a dry run, or that ends "cancelled" or "failed", leaves
\* the configuration row of its guild unchanged, last_scan_timestamp and the
\* watermark included: the row is written only by a scan that is not a dry
\* run and has completed, and a scan that is ending "cancelled" or "failed"
\* has not written its timestamp (invocation p writes the timestamp p)
C39_OnlyCompletedScanWritesConfig ==
    [][/\ \A g \in Guilds :
             EmoticonConfig'[g] # EmoticonConfig[g] =>
                \E p \in Procs : /\ SaveConfig(p) /\ scans[p].guild = g
                                 /\ ~scans[p].dry_run
                                 /\ scans[p].progress.status = "completed"
       /\ \A p \in Procs :
             scans'[p].pc \in {"save_cancelled", "save_failed", "send_failed"} =>
                EmoticonConfig'[scans'[p].guild].last_scan_timestamp # p]_vars

\* C40: for a leaderboard view with any number of entries, zero included,
\* after any sequence of next and previous presses the page index satisfies
\* 0 <= current_page <= max(max_pages - 1, 0); next on the last page goes to
\* the first page and previous on the first page goes to the last; and every
\* line shown carries as its rank the position of its entry in the full list
C40_PageIndexAndRanks ==
    /\ call.current_page >= 0
    /\ call.current_page <= (IF call.max_pages - 1 > 0 THEN call.max_pages - 1 ELSE 0)
    /\ (call.pressed = "next" /\ call.from = call.max_pages - 1) => call.current_page = 0
    /\ (call.pressed = "previous" /\ call.from = 0) =>
          call.current_page = call.max_pages - 1
    /\ \A k \in DOMAIN call.shown : call.shown[k].rank = call.shown[k].entry
    /\ Len(call.entries) > 0 => Len(call.shown) > 0

\* previous was pressed on the first of three pages: the last page shows the
\* ninth and tenth entries with ranks 9 and 10
C40_Witness ==
    /\ call.pressed = "previous" /\ call.from = 0
    /\ call.per_page = 4 /\ call.current_page = 2
    /\ call.shown = <<[rank |-> 9, entry |-> 9], [rank |-> 10, entry |-> 10]>>

====
